---- MODULE Spec2Model ----
(***************************************************************************)
(* Model of the mallorcaeat scraping pipeline (src/scraper): the API-key   *)
(* rotator, the provider calls with their retry loops, the status helpers  *)
(* of db.py and the stages of pipeline.py.                                 *)
(*                                                                         *)
(* Conventions.  SQL NULL and Python None are the integer NULL (-1), which *)
(* sorts before every time and every count, as NULLS FIRST does.  Time is  *)
(* counted in whole days.  Ratings are in tenths of a star (4.5 is 45).    *)
(* A table keyed by place_id is a function whose DOMAIN is the set of the  *)
(* keys that have a row.                                                   *)
(***************************************************************************)
EXTENDS Integers, Sequences, FiniteSets, TLC

\* ---------------------------------------------------------------- bounds
NumPlaces == 2
NumQueries == 2
PipePlaces == 1
PipeQueries == 1
QuotaPlaces == 3
MaxKeys == 4
MaxRotations == 5
MaxEnvEntries == 2
MaxCalls == 2
PairPlaces == 2
RankPlaces == 3
LargePlaces == 22
MaxRequests == 1
NumKeys == 2
DailyLimit == 2
MaxTicks == 1
RunQueries == 3
MaxRunTicks == 3
NumWorkers == 2
WorkerPlaces == 2
WorkerCap == 1
MaxInvocations == 2
\* --force-search runs before the pipeline is left to its scheduled runs.
MaxForced == 2

\* ------------------------------------------------------ program constants
NULL == 0 - 1
MIN_RATING == 45
MIN_REVIEWS == 100
SERPER_RETRIES == 5
SERPAPI_RETRIES == 5
GEMINI_RETRIES == 3
VERIFY_MAX_AGE_DAYS == 730
SEARCH_TTL_DAYS == 183
MIN_SCORES == 5
MAX_SIMILAR == 20
DEFAULT_SIMILAR == 6
MIN_SIMILARITY == 500000
TWO_MONTHS == 61
FIVE_MONTHS == 152

VARIABLES
    places,         \* the places the maps provider knows (their place ids)
    queries,        \* the configured SEARCH_TERMS x LOCATIONS combinations
    rotator,        \* a KeyRotator: [n, index, exhausted_count]
    rotLog,         \* what the last rotator operation was and returned
    call,           \* what the last provider call did with the rotator, attempt by attempt
    restaurants,    \* table restaurants, keyed by place_id
    enrichments,    \* table gemini_enrichments, keyed by place_id
    details,        \* table serpapi_details, keyed by place_id
    embeddings,     \* table restaurant_embeddings, keyed by place_id
    cache,          \* table serper_cache, keyed by (query, location, "maps")
    pipeline_runs,  \* table pipeline_runs, keyed by (query, location)
    search_results, \* table search_results: <<cache key, place_id, position>>
    now,            \* the clock (NOW(), CURRENT_DATE), in days
    ticks,          \* how often the clock was advanced
    run,            \* what the last operation did (its log lines and counters)
    catalog,        \* the columns api_similar reads, per place_id
    similar,        \* what the last request to /api/similar was answered
    urgency,        \* what the last db.get_pipeline_runs returned, and when
    workers,        \* the enrich runs in progress: where each is in enrich.run
    invocation,     \* the last call of pipeline.main: its --stages and how far it is
    slots           \* the last call of embed.compute_open_slots: argument and result

rotVars == <<rotator, rotLog, call>>
\* What no stage of the pipeline writes in this model: the provider's places, the
\* configured queries, the recommender's catalogue and response, and the listing
\* of the search queries.
worldVars == <<places, queries, catalog, similar, urgency, workers, invocation, slots>>
storeVars == <<restaurants, enrichments, details, embeddings, cache,
               pipeline_runs, search_results>>
vars == <<places, queries, rotator, rotLog, call, restaurants, enrichments, details, embeddings,
          cache, pipeline_runs, search_results, now, ticks, run, catalog, similar,
          urgency, workers, invocation, slots>>

\* ------------------------------------------------------------ KeyRotator

\* A constructor that accepts any key list, for contrast with KeyRotatorInit.
KeyRotatorInitLenient(n) ==
    [ok |-> TRUE, error |-> "", rot |-> [n |-> n, index |-> 0, exhausted_count |-> 0]]

\* KeyRotator.__init__ for a list of n keys: an empty key list raises ValueError.
KeyRotatorInit(n) ==
    IF n = 0
    THEN [ok |-> FALSE, error |-> "ValueError",
          rot |-> [n |-> 0, index |-> 0, exhausted_count |-> 0]]
    ELSE [ok |-> TRUE, error |-> "", rot |-> [n |-> n, index |-> 0, exhausted_count |-> 0]]

\* An entry of an environment variable after strip(): a key, or nothing.
EnvEntries == {"key", ""}

\* KeyRotator.from_env(plural_var, singular_var).  plural is the comma-separated
\* value of plural_var as its sequence of stripped entries (<<>> when the
\* variable is unset or blank); singular is the stripped value of singular_var
\* ("" when it is unset or blank), or "no_var" when no singular_var is given.
FromEnv(plural, singular) ==
    LET keys == SelectSeq(plural, LAMBDA k : k # "")
    IN  IF Len(plural) > 0 /\ Len(keys) > 0 THEN KeyRotatorInit(Len(keys))
        ELSE IF singular \notin {"no_var", ""} THEN KeyRotatorInit(1)
        ELSE [ok |-> FALSE, error |-> "EnvironmentError",
              rot |-> [n |-> 0, index |-> 0, exhausted_count |-> 0]]

\* The number of credentials an environment holds for from_env.
EnvKeys(plural, singular) ==
    Len(SelectSeq(plural, LAMBDA k : k # ""))
        + (IF singular \notin {"no_var", ""} THEN 1 ELSE 0)

\* KeyRotator.current: the index of the active key.
Current(r) == r.index

\* A rotate() without the exhaustion test, for contrast with Rotate.
RotateAlwaysAdvance(r) ==
    [rot |-> [r EXCEPT !.index = (r.index + 1) % r.n,
                       !.exhausted_count = r.exhausted_count + 1],
     ret |-> TRUE]

\* A rotate() that gives up one call later, for contrast with Rotate.
RotateOneMore(r) ==
    LET next_index == (r.index + 1) % r.n
        count == r.exhausted_count + 1
    IN  IF count > r.n
        THEN [rot |-> [r EXCEPT !.exhausted_count = count], ret |-> FALSE]
        ELSE [rot |-> [r EXCEPT !.exhausted_count = count, !.index = next_index],
              ret |-> TRUE]

\* KeyRotator.rotate: the rotator after the call, and the value returned.
Rotate(r) ==
    LET next_index == (r.index + 1) % r.n
        count == r.exhausted_count + 1
    IN  IF count >= r.n
        THEN [rot |-> [r EXCEPT !.exhausted_count = count], ret |-> FALSE]
        ELSE [rot |-> [r EXCEPT !.exhausted_count = count, !.index = next_index],
              ret |-> TRUE]

\* KeyRotator.all_exhausted
AllExhausted(r) == r.exhausted_count >= r.n

\* KeyRotator.reset
Reset(r) == [r EXCEPT !.exhausted_count = 0]

\* -------------------------------------------------------- provider calls
\* A provider call is driven by the provider's answer to each attempt:
\*   "ok"        HTTP 200 with a well-formed body
\*   "r429"      HTTP 429 (rate limited)
\*   "credit400" HTTP 400 whose message mentions credits
\*   "bad400"    any other HTTP 400
\*   "http5xx"   any other HTTP error status
\*   "neterr"    a transport error (requests.RequestException)
\*   "apierror"  HTTP 200 whose body holds an "error" key (SerpAPI)
\*   "badjson"   HTTP 200 whose body cannot be parsed (Gemini)
\* The result is "return" (a response is returned), "raise" (an exception
\* leaves the function) or "none" (the loop ends and the function falls off
\* its end, returning None).

\* What one attempt of a call did: the key it used, the provider's answer, what
\* the code did about it ("return", "raise", "rotate" for a rotate() that
\* returned true followed by an immediate retry, "sleep30" for the wait of 30 s
\* after a rotate() that returned false, "backoff" for the wait of 2^attempt s),
\* and the active key and the exhaustion counter after it.
Attempt(r, kind, did, r2) ==
    [key |-> Current(r), answer |-> kind, did |-> did,
     next_key |-> Current(r2), count |-> r2.exhausted_count]

CallResult(res, r, reqs, sleeps, tr) ==
    [result |-> res, rot |-> r, requests |-> reqs, sleeps |-> sleeps, trace |-> tr]

RECURSIVE SearchMapsFrom(_, _, _, _, _, _)
\* serper.search_maps: the retry loop from attempt `a` on.
SearchMapsFrom(resps, a, r, reqs, sleeps, tr) ==
    IF a > SERPER_RETRIES THEN CallResult("none", r, reqs, sleeps, tr)
    ELSE LET kind == resps[a]
             x == Rotate(r)
             ev(did, r2) == Append(tr, Attempt(r, kind, did, r2))
         IN  CASE kind = "ok" ->
                    CallResult("return", Reset(r), reqs + 1, sleeps, ev("return", Reset(r)))
               [] kind = "r429" ->
                    IF x.ret
                    THEN SearchMapsFrom(resps, a + 1, x.rot, reqs + 1, sleeps,
                                        ev("rotate", x.rot))
                    ELSE SearchMapsFrom(resps, a + 1, Reset(x.rot), reqs + 1, sleeps + 1,
                                        ev("sleep30", Reset(x.rot)))
               [] kind = "credit400" ->
                    IF x.ret
                    THEN SearchMapsFrom(resps, a + 1, x.rot, reqs + 1, sleeps,
                                        ev("rotate", x.rot))
                    ELSE CallResult("raise", x.rot, reqs + 1, sleeps, ev("raise", x.rot))
               [] kind = "bad400" -> CallResult("raise", r, reqs + 1, sleeps, ev("raise", r))
               [] OTHER ->
                    IF a < SERPER_RETRIES
                    THEN SearchMapsFrom(resps, a + 1, r, reqs + 1, sleeps + 1, ev("backoff", r))
                    ELSE CallResult("raise", r, reqs + 1, sleeps, ev("raise", r))

\* serper.search_maps(query, location)
SearchMaps(resps, r) == SearchMapsFrom(resps, 1, r, 0, 0, <<>>)

RECURSIVE FetchPlaceDetailsFrom(_, _, _, _, _, _)
\* detail_scrape.fetch_place_details: the retry loop from attempt `a` on.
FetchPlaceDetailsFrom(resps, a, r, reqs, sleeps, tr) ==
    IF a > SERPAPI_RETRIES THEN CallResult("none", r, reqs, sleeps, tr)
    ELSE LET kind == resps[a]
             x == Rotate(r)
             ev(did, r2) == Append(tr, Attempt(r, kind, did, r2))
         IN  CASE kind = "ok" ->
                    CallResult("return", Reset(r), reqs + 1, sleeps, ev("return", Reset(r)))
               [] kind = "r429" ->
                    IF x.ret
                    THEN FetchPlaceDetailsFrom(resps, a + 1, x.rot, reqs + 1, sleeps,
                                               ev("rotate", x.rot))
                    ELSE FetchPlaceDetailsFrom(resps, a + 1, Reset(x.rot), reqs + 1,
                                               sleeps + 1, ev("sleep30", Reset(x.rot)))
               [] OTHER ->
                    IF a = SERPAPI_RETRIES
                    THEN CallResult("raise", r, reqs + 1, sleeps, ev("raise", r))
                    ELSE FetchPlaceDetailsFrom(resps, a + 1, r, reqs + 1, sleeps + 1,
                                               ev("backoff", r))

\* detail_scrape.fetch_place_details(data_cid)
FetchPlaceDetails(resps, r) == FetchPlaceDetailsFrom(resps, 1, r, 0, 0, <<>>)

\* The index of the last attempt of a trace after which reset() was called (after
\* the wait of 30 s and after a successful answer), 0 when there is none.
LastReset(tr) ==
    LET R == {i \in DOMAIN tr : tr[i].did \in {"sleep30", "return"}}
    IN  IF R = {} THEN 0 ELSE CHOOSE i \in R : \A j \in R : j <= i

\* The keys that have given the answer `kind` since the last reset(), after a
\* call with trace tr that began with the keys `before` in that condition.
AnsweredSinceReset(tr, kind, before) ==
    {tr[j].key : j \in {i \in DOMAIN tr : i > LastReset(tr) /\ tr[i].answer = kind}}
        \cup (IF LastReset(tr) = 0 THEN before ELSE {})

\* No provider call yet on a rotator.
NoCall ==
    [fn |-> "none", n |-> 0, seq |-> 0, result |-> "", trace |-> <<>>,
     limited0 |-> {}, spent0 |-> {}, limited |-> {}, spent |-> {}]

RECURSIVE CallGeminiFrom(_, _, _, _)
\* enrich.call_gemini: the retry loop from attempt `a` on (no key rotation).
CallGeminiFrom(resps, a, reqs, sleeps) ==
    IF a > GEMINI_RETRIES THEN [result |-> "none", requests |-> reqs, sleeps |-> sleeps]
    ELSE LET kind == resps[a]
         IN  CASE kind = "ok" ->
                    [result |-> "return", requests |-> reqs + 1, sleeps |-> sleeps]
               [] kind = "neterr" ->
                    [result |-> "raise", requests |-> reqs + 1, sleeps |-> sleeps]
               [] kind = "badjson" ->
                    IF a = GEMINI_RETRIES
                    THEN [result |-> "raise", requests |-> reqs + 1, sleeps |-> sleeps]
                    ELSE CallGeminiFrom(resps, a + 1, reqs + 1, sleeps + 1)
               [] OTHER ->
                    IF kind = "r429" \/ a < GEMINI_RETRIES
                    THEN CallGeminiFrom(resps, a + 1, reqs + 1, sleeps + 1)
                    ELSE [result |-> "raise", requests |-> reqs + 1, sleeps |-> sleeps]

\* enrich.call_gemini(name, address, lat, lng)
CallGemini(resps) == CallGeminiFrom(resps, 1, 0, 0)

\* The provider answers every attempt of one call the same way.
Always(kind) == [a \in 1..5 |-> kind]

\* The rotator a stage starts with: serper._get_rotator / detail_scrape._get_rotator
\* build it from the environment on the first call of a process.
FreshRotator == KeyRotatorInit(NumKeys).rot

\* ------------------------------------------------------------- utilities
Min(a, b) == IF a <= b THEN a ELSE b

RECURSIVE OrderBy(_, _)
\* ORDER BY: the elements of S by ascending key k[x]; equal keys by identifier
\* (the database leaves the order of ties open; the model fixes one).
OrderBy(S, k) ==
    IF S = {} THEN <<>>
    ELSE LET m == CHOOSE x \in S : \A y \in S : k[x] < k[y] \/ (k[x] = k[y] /\ x <= y)
         IN  <<m>> \o OrderBy(S \ {m}, k)

\* Python's `if limit` / SQL `LIMIT n`: None and 0 are both falsy, so neither limits.
Limited(rows, limit) ==
    IF limit = NULL \/ limit = 0 THEN rows ELSE SubSeq(rows, 1, Min(limit, Len(rows)))

Range(f) == {f[x] : x \in DOMAIN f}

\* -------------------------------------------------- db.py: status helpers
Statuses == {"new", "disqualified", "enriched", "complete", "inactive"}

\* The priority dict of set_pipeline_status and the CASE of its WHERE clause;
\* any other value counts 0.
Priority(s) ==
    CASE s = "new" -> 0
      [] s = "disqualified" -> 1
      [] s = "enriched" -> 2
      [] s = "complete" -> 3
      [] s = "inactive" -> 4
      [] OTHER -> 0

\* The UPDATE without its priority condition, for contrast with set_pipeline_status.
set_pipeline_status_unguarded(rs, place_id, status, t) ==
    IF place_id \in DOMAIN rs
    THEN [rs EXCEPT ![place_id].pipeline_status = status]
    ELSE rs

\* The UPDATE without its last_verified_at assignment, for contrast with
\* set_pipeline_status.
set_pipeline_status_unstamped(rs, place_id, status, t) ==
    IF place_id \in DOMAIN rs /\ Priority(rs[place_id].pipeline_status) <= Priority(status)
    THEN [rs EXCEPT ![place_id].pipeline_status = status]
    ELSE rs

\* db.set_pipeline_status: the restaurants table after the UPDATE.
set_pipeline_status(rs, place_id, status, t) ==
    IF place_id \in DOMAIN rs /\ Priority(rs[place_id].pipeline_status) <= Priority(status)
    THEN [rs EXCEPT ![place_id].pipeline_status = status,
                    ![place_id].last_verified_at =
                        IF status \in {"complete", "inactive"} THEN t ELSE @]
    ELSE rs

\* db.set_pipeline_status_force: the restaurants table after the UPDATE.
set_pipeline_status_force(rs, place_id, status, t) ==
    IF place_id \in DOMAIN rs
    THEN [rs EXCEPT ![place_id].pipeline_status = status,
                    ![place_id].last_verified_at = t]
    ELSE rs

\* ------------------------------------------------------- provider payloads
\* What the maps search says about one place: its identifier (placeId or cid),
\* rating, ratingCount and whether the payload carries a cid.
Qualities == {"good", "low", "unrated"}

PlaceObject(p, q) ==
    [placeId |-> p,
     rating |-> CASE q = "good" -> MIN_RATING
                  [] q = "best" -> MIN_RATING + 1
                  [] q = "low" -> MIN_RATING - 1
                  [] q = "few" -> MIN_RATING
                  [] OTHER -> NULL,
     ratingCount |-> CASE q = "good" -> MIN_REVIEWS
                       [] q = "best" -> MIN_REVIEWS
                       [] q = "low" -> MIN_REVIEWS
                       [] q = "few" -> MIN_REVIEWS - 1
                       [] OTHER -> NULL,
     cid |-> TRUE]

\* A search response body: for each place, whether it is listed and how.
\* The bodies the model lets the provider send: nobody listed, or every place
\* listed with the same quality.
Bodies ==
    {[p \in places |-> "absent"]} \cup {[p \in places |-> q] : q \in Qualities}

\* data.get("places", []): the listed places, in the order of the response.
PlacesOf(body) ==
    LET listed == {p \in places : body[p] # "absent"}
        order == OrderBy(listed, [p \in listed |-> p])
    IN  [i \in 1..Len(order) |-> PlaceObject(order[i], body[order[i]])]

\* --------------------------------------------------- db.py: table helpers
\* The column defaults of a row INSERTed into restaurants.
InsertDefaults == [pipeline_status |-> "new", is_active |-> TRUE, last_verified_at |-> NULL]

\* An upsert that replaces the whole row, column defaults included, for contrast
\* with upsert_restaurant.
upsert_restaurant_replacing(rs, place) ==
    IF place.placeId = NULL THEN rs
    ELSE [p \in DOMAIN rs \cup {place.placeId} |->
            IF p # place.placeId THEN rs[p]
            ELSE [pipeline_status |-> InsertDefaults.pipeline_status,
                  is_active |-> InsertDefaults.is_active,
                  last_verified_at |-> InsertDefaults.last_verified_at,
                  rating |-> place.rating,
                  rating_count |-> place.ratingCount,
                  cid |-> place.cid]]

\* db.upsert_restaurant: the restaurants table after the INSERT .. ON CONFLICT.
upsert_restaurant(rs, place) ==
    IF place.placeId = NULL THEN rs
    ELSE IF place.placeId \in DOMAIN rs
    THEN [rs EXCEPT ![place.placeId].rating = place.rating,
                    ![place.placeId].rating_count = place.ratingCount,
                    ![place.placeId].cid = place.cid]
    ELSE [p \in DOMAIN rs \cup {place.placeId} |->
            IF p \in DOMAIN rs THEN rs[p]
            ELSE [pipeline_status |-> InsertDefaults.pipeline_status,
                  is_active |-> InsertDefaults.is_active,
                  last_verified_at |-> InsertDefaults.last_verified_at,
                  rating |-> place.rating,
                  rating_count |-> place.ratingCount,
                  cid |-> place.cid]]

\* db.link_search_result: INSERT .. ON CONFLICT (cache_id, restaurant_id) DO NOTHING.
link_search_result(sr, cache_id, restaurant_id, position) ==
    IF \E row \in sr : row[1] = cache_id /\ row[2] = restaurant_id THEN sr
    ELSE sr \cup {<<cache_id, restaurant_id, position>>}

\* A lookup that never finds a cached response, for contrast with CachedData.
CachedNever(c, q) == FALSE

\* db.get_cached: whether a row exists, and whether its response is truthy.
CachedData(c, q) == q \in DOMAIN c /\ ~c[q].isnull

\* db.save_cache: INSERT .. ON CONFLICT DO UPDATE SET response.
save_cache(c, q, response) ==
    [k \in DOMAIN c \cup {q} |-> IF k = q THEN response ELSE c[k]]

\* Seeding with INSERT .. ON CONFLICT DO UPDATE to the column defaults, for
\* contrast with init_pipeline_runs.
init_pipeline_runs_overwriting(pr) ==
    [q \in DOMAIN pr \cup queries |->
        [last_run_at |-> NULL, result_count |-> NULL, status |-> "pending"]]

\* db.init_pipeline_runs: the loops over terms and locations, one INSERT ..
\* ON CONFLICT DO NOTHING per pair.  The configured lists name every pair twice
\* here, as lists with duplicates do.
init_pipeline_runs(pr) ==
    LET once == OrderBy(queries, [q \in queries |-> q])
        pairs == once \o once
        RECURSIVE insert(_, _)
        insert(t, i) ==
            IF i > Len(pairs) THEN t
            ELSE insert(IF pairs[i] \in DOMAIN t THEN t
                        ELSE [q \in DOMAIN t \cup {pairs[i]} |->
                                IF q \in DOMAIN t THEN t[q]
                                ELSE [last_run_at |-> NULL, result_count |-> NULL,
                                      status |-> "pending"]],
                        i + 1)
    IN  insert(pr, 1)

\* db.mark_pipeline_run: INSERT .. ON CONFLICT DO UPDATE SET last_run_at = NOW(), ..
mark_pipeline_run(pr, q, result_count, status, t) ==
    [k \in DOMAIN pr \cup {q} |->
        IF k = q THEN [last_run_at |-> t, result_count |-> result_count, status |-> status]
        ELSE pr[k]]

\* The WHERE clause of db.get_due_pipeline_runs.
IsDue(row, t) == row.last_run_at = NULL \/ row.last_run_at < t - SEARCH_TTL_DAYS

\* db.get_due_pipeline_runs(conn): ORDER BY last_run_at NULLS FIRST.
get_due_pipeline_runs(pr, t) ==
    LET due == {q \in DOMAIN pr : IsDue(pr[q], t)}
    IN  OrderBy(due, [q \in due |-> pr[q].last_run_at])

\* The freshness column of db.get_pipeline_runs.
Freshness(row, t) ==
    IF row.last_run_at = NULL THEN "never"
    ELSE IF row.last_run_at < t - SEARCH_TTL_DAYS THEN "overdue" ELSE "ok"

\* The listing in the order of the function's docstring ("overdue first, then
\* never-run, then recent"), which is not the order of its ORDER BY.
get_pipeline_runs_overdue_first(pr, t) ==
    LET class(f) == {q \in DOMAIN pr : Freshness(pr[q], t) = f}
        part(f)  == OrderBy(class(f), [q \in class(f) |-> pr[q].last_run_at])
        ids      == part("overdue") \o part("never") \o part("ok")
    IN  [i \in 1..Len(ids) |->
            [query |-> ids[i], last_run_at |-> pr[ids[i]].last_run_at,
             freshness |-> Freshness(pr[ids[i]], t)]]

\* db.get_pipeline_runs(conn): every row with its freshness, ORDER BY the CASE
\* (never 0, overdue 1, else 2), then last_run_at ASC NULLS FIRST.
get_pipeline_runs(pr, t) ==
    LET class(f) == {q \in DOMAIN pr : Freshness(pr[q], t) = f}
        part(f)  == OrderBy(class(f), [q \in class(f) |-> pr[q].last_run_at])
        ids      == part("never") \o part("overdue") \o part("ok")
    IN  [i \in 1..Len(ids) |->
            [query |-> ids[i], last_run_at |-> pr[ids[i]].last_run_at,
             freshness |-> Freshness(pr[ids[i]], t)]]

\* No listing was asked for yet.
NoListing == [at |-> NULL, rows |-> <<>>, due |-> {}]

\* An enrich run that has not started: pc is where it is in enrich.run, rows
\* what its fetch_pending returned, i the row its loop is at, ok its stats["ok"].
NoWorker == [pc |-> "idle", rows |-> <<>>, i |-> 1, ok |-> {}]

\* ------------------------------------------------------------ run records
\* What one operation did: the records it selected, the provider calls it made,
\* the records whose call returned and whose result was saved (ok), the records
\* counted as errors (failed), the records whose loop iteration ran to its end
\* (done), and whether an exception left the operation.  `arg` is the status
\* handed to a status helper, or "force" for a search run with --force-search;
\* `limit` is the --limit of an enrich run.
NoRun(stage, dry) ==
    [stage |-> stage, dry_run |-> dry, selected |-> {}, calls |-> {}, ok |-> {},
     failed |-> {}, done |-> {}, aborted |-> FALSE, arg |-> "", limit |-> NULL]

\* The part of a run record the state keeps: `skipped` are the selected records
\* whose loop iteration never ran to its end, `again` are the records that were
\* ok in the operation just before, when that was a real run of the same stage.
Kept(log) ==
    [stage |-> log.stage, dry_run |-> log.dry_run, calls |-> log.calls, ok |-> log.ok,
     failed |-> log.failed, skipped |-> log.selected \ log.done, aborted |-> log.aborted,
     arg |-> log.arg, limit |-> log.limit,
     again |-> IF run.stage = log.stage /\ ~run.dry_run THEN run.ok ELSE {}]

SeqToSet(q) == {q[i] : i \in 1..Len(q)}

\* ------------------------------------------------- scrape.py: search stage
RECURSIVE IngestPlaces(_, _, _, _, _, _)
\* scrape.run, the loop over data["places"] from position i on: upsert, link,
\* set_pipeline_status(.., "new").  Yields the store and new_count.
IngestPlaces(D, q, listing, i, t, cnt) ==
    IF i > Len(listing) THEN [db |-> D, count |-> cnt]
    ELSE LET place == listing[i]
             hasId == place.placeId # NULL
             rs1 == upsert_restaurant(D.restaurants, place)
             sr1 == IF hasId
                    THEN link_search_result(D.search_results, q, place.placeId, i)
                    ELSE D.search_results
             rs2 == IF hasId THEN set_pipeline_status(rs1, place.placeId, "new", t) ELSE rs1
         IN  IngestPlaces([D EXCEPT !.restaurants = rs2, !.search_results = sr1],
                          q, listing, i + 1, t, IF hasId THEN cnt + 1 ELSE cnt)

\* scrape.run, one iteration of the loop over the combinations, after the
\* places were read from `body`: ingest them and mark the query as run.
IngestQuery(D, q, body, t) ==
    LET r == IngestPlaces(D, q, PlacesOf(body), 1, t, 0)
    IN  [r.db EXCEPT !.pipeline_runs = mark_pipeline_run(@, q, r.count, "ok", t)]

RECURSIVE ScrapeLoop(_, _, _, _, _, _, _, _, _)
\* scrape.run, the loop over the combinations from index i on.  inp[q] is what
\* the provider does when asked for q: how it answers (kind) and with what body.
ScrapeLoop(D, combos, i, dry, force, inp, t, rot, log) ==
    IF i > Len(combos) THEN [db |-> D, log |-> log]
    ELSE LET q == combos[i]
             res == SearchMaps(Always(inp[q].kind), rot)
         IN  IF CachedData(D.cache, q) /\ ~force
             THEN ScrapeLoop(IngestQuery(D, q, D.cache[q].body, t), combos, i + 1,
                             dry, force, inp, t, rot,
                             [log EXCEPT !.ok = @ \cup {q}, !.done = @ \cup {q}])
             ELSE IF dry
             THEN ScrapeLoop(D, combos, i + 1, dry, force, inp, t, rot,
                             [log EXCEPT !.done = @ \cup {q}])
             ELSE CASE res.result = "return" ->
                         ScrapeLoop(IngestQuery(
                                        [D EXCEPT !.cache = save_cache(@, q,
                                            [isnull |-> FALSE, body |-> inp[q].body])],
                                        q, inp[q].body, t),
                                    combos, i + 1, dry, force, inp, t, res.rot,
                                    [log EXCEPT !.calls = @ \cup {q}, !.ok = @ \cup {q},
                                                !.done = @ \cup {q}])
                    [] res.result = "raise" ->
                         ScrapeLoop([D EXCEPT !.pipeline_runs =
                                        mark_pipeline_run(@, q, 0, "error", t)],
                                    combos, i + 1, dry, force, inp, t, res.rot,
                                    [log EXCEPT !.calls = @ \cup {q}, !.failed = @ \cup {q},
                                                !.done = @ \cup {q}])
                    [] OTHER ->
                         \* search_maps returned None: the null response is cached,
                         \* then data.get("places") raises outside every try block.
                         [db |-> [D EXCEPT !.cache = save_cache(@, q,
                                     [isnull |-> TRUE, body |-> [p \in places |-> "absent"]])],
                          log |-> [log EXCEPT !.calls = @ \cup {q}, !.aborted = TRUE]]

\* scrape.run(dry_run, force): the queries to run, then the loop.
ScrapeRun(D, dry, force, inp, t) ==
    LET D0 == [D EXCEPT !.pipeline_runs = init_pipeline_runs(@)]
        combos == IF force THEN OrderBy(queries, [q \in queries |-> q])
                  ELSE get_due_pipeline_runs(D0.pipeline_runs, t)
    IN  ScrapeLoop(D0, combos, 1, dry, force, inp, t, FreshRotator,
                   [NoRun("search", dry) EXCEPT !.selected = SeqToSet(combos),
                                                !.arg = IF force THEN "force" ELSE ""])

\* pipeline.stage_search
stage_search(D, dry, force, inp, t) ==
    ScrapeRun([D EXCEPT !.pipeline_runs = init_pipeline_runs(@)], dry, force, inp, t)

\* --------------------------------------------- pipeline.py: qualify stage
\* SQL comparisons with NULL are not true.
SqlLt(a, b) == a # NULL /\ a < b
SqlGe(a, b) == a # NULL /\ a >= b

\* The WHERE clause shared by the fetch_pending queries and the re-qualify UPDATE.
MeetsThreshold(row) == SqlGe(row.rating, MIN_RATING) /\ SqlGe(row.rating_count, MIN_REVIEWS)

RECURSIVE SetAll(_, _, _, _, _)
\* for pid in rows: set_pipeline_status(conn, pid, status)
SetAll(rs, rows, i, status, t) ==
    IF i > Len(rows) THEN rs
    ELSE SetAll(set_pipeline_status(rs, rows[i], status, t), rows, i + 1, status, t)

\* pipeline.stage_qualify
stage_qualify(D, dry, t) ==
    LET rs == D.restaurants
        sel == {p \in DOMAIN rs : rs[p].pipeline_status = "new"
                    /\ (SqlLt(rs[p].rating, MIN_RATING) \/ SqlLt(rs[p].rating_count, MIN_REVIEWS))}
        to_disqualify == OrderBy(sel, [p \in sel |-> p])
        rs1 == SetAll(rs, to_disqualify, 1, "disqualified", t)
        rs2 == [p \in DOMAIN rs1 |->
                    IF rs1[p].pipeline_status = "disqualified" /\ MeetsThreshold(rs1[p])
                    THEN [rs1[p] EXCEPT !.pipeline_status = "new"]
                    ELSE rs1[p]]
        log == [NoRun("qualify", dry) EXCEPT !.selected = sel]
    IN  IF dry THEN [db |-> D, log |-> log]
        ELSE [db |-> [D EXCEPT !.restaurants = rs2],
              log |-> [log EXCEPT !.ok = sel, !.done = sel]]

\* ------------------------------------------------ enrich.py: enrich stage
\* What Gemini answers for a place: vibe and summary_de are "text", "" or "null"
\* (JSON null), scores is the number of profile scores that are set.
GeminiData ==
    {[vibe |-> "text", summary_de |-> "text", scores |-> 11],
     [vibe |-> "null", summary_de |-> "text", scores |-> 11]}

\* db.count_today_enrichments: enriched_at::date = CURRENT_DATE
count_today_enrichments(en, t) == Cardinality({p \in DOMAIN en : en[p].enriched_at = t})

\* The ORDER BY r.rating DESC, r.rating_count DESC of the fetch_pending queries.
RatingKey(rs, S) == [p \in S |-> 0 - (rs[p].rating * 100000 + rs[p].rating_count)]

\* The query without its anti-join on gemini_enrichments, for contrast with
\* enrich_fetch_pending.
enrich_fetch_cached_too(D, limit) ==
    LET rs == D.restaurants
        S == {p \in DOMAIN rs : MeetsThreshold(rs[p])}
    IN  Limited(OrderBy(S, RatingKey(rs, S)), limit)

\* enrich.fetch_pending(conn, min_rating, min_reviews, limit, force=False)
enrich_fetch_pending(D, limit) ==
    LET rs == D.restaurants
        S == {p \in DOMAIN rs : MeetsThreshold(rs[p]) /\ p \notin DOMAIN D.enrichments}
    IN  Limited(OrderBy(S, RatingKey(rs, S)), limit)

\* A save that stores nothing, for contrast with save_enrichment.
save_enrichment_dropped(en, place_id, data, t) == en

\* enrich.save_enrichment: INSERT .. ON CONFLICT DO UPDATE, enriched_at = NOW().
save_enrichment(en, place_id, data, t) ==
    [p \in DOMAIN en \cup {place_id} |->
        IF p = place_id
        THEN [vibe |-> data.vibe, summary_de |-> data.summary_de, scores |-> data.scores,
              enriched_at |-> t]
        ELSE en[p]]

RECURSIVE EnrichLoopMarkingFirst(_, _, _, _, _, _)
\* The loop with the status set before the answer is known, for contrast with
\* EnrichLoop.
EnrichLoopMarkingFirst(D, rows, i, inp, t, log) ==
    IF i > Len(rows) THEN [db |-> D, log |-> log]
    ELSE LET p == rows[i]
             res == CallGemini(Always(inp[p].kind))
             log1 == [log EXCEPT !.calls = @ \cup {p}, !.done = @ \cup {p}]
             D1 == [D EXCEPT !.restaurants = set_pipeline_status(@, p, "enriched", t)]
         IN  IF res.result = "return"
             THEN EnrichLoopMarkingFirst(
                    [D1 EXCEPT !.enrichments = save_enrichment(@, p, inp[p].data, t)],
                    rows, i + 1, inp, t,
                    [log1 EXCEPT !.ok = @ \cup {p},
                                 !.failed = IF inp[p].data.vibe = "null" THEN @ \cup {p} ELSE @])
             ELSE EnrichLoopMarkingFirst(D1, rows, i + 1, inp, t,
                                         [log1 EXCEPT !.failed = @ \cup {p}])

RECURSIVE EnrichLoop(_, _, _, _, _, _)
\* enrich.run, the loop over the pending rows from index i on.  inp[p] is what
\* Gemini does when asked about p: how it answers (kind) and with what data.
EnrichLoop(D, rows, i, inp, t, log) ==
    IF i > Len(rows) THEN [db |-> D, log |-> log]
    ELSE LET p == rows[i]
             res == CallGemini(Always(inp[p].kind))
             log1 == [log EXCEPT !.calls = @ \cup {p}, !.done = @ \cup {p}]
         IN  IF res.result = "return"
             THEN EnrichLoop(
                    [D EXCEPT !.enrichments = save_enrichment(@, p, inp[p].data, t),
                              !.restaurants = set_pipeline_status(@, p, "enriched", t)],
                    rows, i + 1, inp, t,
                    \* data.get("vibe", "")[:90] raises on a null vibe, after the save
                    [log1 EXCEPT !.ok = @ \cup {p},
                                 !.failed = IF inp[p].data.vibe = "null" THEN @ \cup {p} ELSE @])
             ELSE EnrichLoop(D, rows, i + 1, inp, t, [log1 EXCEPT !.failed = @ \cup {p}])

\* enrich.run(limit, dry_run, force=False, daily_limit): the rows it will process.
EnrichRows(D, limit, daily_limit, t) ==
    LET remaining == daily_limit - count_today_enrichments(D.enrichments, t)
        effective_limit == IF limit = NULL \/ limit > remaining THEN remaining ELSE limit
    IN  IF remaining <= 0 THEN <<>> ELSE enrich_fetch_pending(D, effective_limit)

\* pipeline.stage_enrich: the limit it hands to enrich.run.
StageEnrichLimit(D, limit, daily_limit, t) ==
    LET remaining == daily_limit - count_today_enrichments(D.enrichments, t)
    IN  IF limit # NULL /\ limit <= remaining THEN limit ELSE remaining

\* pipeline.stage_enrich: the rows enrich.run will process (none when the daily
\* limit is reached).
StageEnrichRows(D, limit, daily_limit, t) ==
    IF daily_limit - count_today_enrichments(D.enrichments, t) <= 0 THEN <<>>
    ELSE EnrichRows(D, StageEnrichLimit(D, limit, daily_limit, t), daily_limit, t)

\* pipeline.stage_enrich
stage_enrich(D, dry, limit, daily_limit, inp, t) ==
    LET rows == StageEnrichRows(D, limit, daily_limit, t)
        log == [NoRun("enrich", dry) EXCEPT !.selected = SeqToSet(rows), !.limit = limit]
    IN  IF dry THEN [db |-> D, log |-> [log EXCEPT !.done = SeqToSet(rows)]]
        ELSE EnrichLoop(D, rows, 1, inp, t, log)

\* ------------------------------------------ pipeline.py: completeness stage
\* The predicate without its score count, for contrast with IsComplete.
IsCompleteAnyScores(e) ==
    /\ e.vibe \notin {"", "null"}
    /\ e.summary_de \notin {"", "null"}

\* The predicate of stage_completeness: vibe and summary_de truthy, score_count >= 5.
IsComplete(e) ==
    /\ e.vibe \notin {"", "null"}
    /\ e.summary_de \notin {"", "null"}
    /\ e.scores >= MIN_SCORES

\* pipeline.stage_completeness
stage_completeness(D, dry, t) ==
    LET rs == D.restaurants
        rows == {p \in DOMAIN rs \cap DOMAIN D.enrichments : rs[p].pipeline_status = "enriched"}
        complete == {p \in rows : IsComplete(D.enrichments[p])}
        order == OrderBy(complete, [p \in complete |-> p])
        log == [NoRun("completeness", dry) EXCEPT !.selected = rows]
    IN  IF dry THEN [db |-> D, log |-> log]
        ELSE [db |-> [D EXCEPT !.restaurants = SetAll(rs, order, 1, "complete", t)],
              log |-> [log EXCEPT !.ok = complete, !.done = rows]]

\* --------------------------------------- detail_scrape.py: details stage
\* place_results of a SerpAPI response, by what it says about closure.
DetailKinds == {"open", "permanently_closed", "temporarily_closed"}

PlaceResult(kind) ==
    [permanently_closed |-> kind = "permanently_closed",
     temporarily_closed |-> kind = "temporarily_closed",
     closed_on_permanently |-> kind = "closed_on_permanently"]

\* detail_scrape.is_place_closed
is_place_closed(place) ==
    place.permanently_closed \/ place.temporarily_closed \/ place.closed_on_permanently

\* detail_scrape.save_details: INSERT .. ON CONFLICT DO UPDATE.
save_details(dt, place_id, place) ==
    [p \in DOMAIN dt \cup {place_id} |-> IF p = place_id THEN place ELSE dt[p]]

\* detail_scrape.fetch_pending(conn, min_rating, min_reviews, limit, force=False)
detail_fetch_pending(D, limit) ==
    LET rs == D.restaurants
        S == {p \in DOMAIN rs : MeetsThreshold(rs[p]) /\ rs[p].cid /\ p \notin DOMAIN D.details}
    IN  Limited(OrderBy(S, RatingKey(rs, S)), limit)

RECURSIVE DetailsLoop(_, _, _, _, _, _, _)
\* detail_scrape.run, the loop over the pending rows from index i on.  inp[p] is
\* what SerpAPI does when asked about p.
DetailsLoop(D, rows, i, inp, t, rot, log) ==
    IF i > Len(rows) THEN [db |-> D, log |-> log]
    ELSE LET p == rows[i]
             res == FetchPlaceDetails(Always(inp[p].kind), rot)
             place == PlaceResult(inp[p].place)
             log1 == [log EXCEPT !.calls = @ \cup {p}, !.done = @ \cup {p}]
             D1 == [D EXCEPT !.details = save_details(@, p, place)]
         IN  IF res.result # "return"
             THEN DetailsLoop(D, rows, i + 1, inp, t, res.rot, [log1 EXCEPT !.failed = @ \cup {p}])
             ELSE IF is_place_closed(place)
             THEN DetailsLoop([D1 EXCEPT !.restaurants = set_pipeline_status_force(@, p, "inactive", t)],
                              rows, i + 1, inp, t, res.rot, [log1 EXCEPT !.ok = @ \cup {p}])
             ELSE DetailsLoop(D1, rows, i + 1, inp, t, res.rot, [log1 EXCEPT !.ok = @ \cup {p}])

\* pipeline.stage_details -> detail_scrape.run(limit, dry_run, force=False)
stage_details(D, dry, limit, inp, t) ==
    LET rows == detail_fetch_pending(D, limit)
        log == [NoRun("details", dry) EXCEPT !.selected = SeqToSet(rows)]
    IN  IF dry THEN [db |-> D, log |-> [log EXCEPT !.done = SeqToSet(rows)]]
        ELSE DetailsLoop(D, rows, 1, inp, t, FreshRotator, log)

\* ----------------------------------------------- pipeline.py: verify stage
\* The query without its age condition, for contrast with fetch_for_verify.
fetch_for_verify_any_age(rs, max_age_days, t) ==
    LET S == {p \in DOMAIN rs : rs[p].pipeline_status = "complete" /\ rs[p].is_active /\ rs[p].cid}
    IN  OrderBy(S, [p \in S |-> rs[p].last_verified_at])

\* db.fetch_for_verify(conn, max_age_days): ORDER BY last_verified_at NULLS FIRST.
fetch_for_verify(rs, max_age_days, t) ==
    LET S == {p \in DOMAIN rs :
                /\ rs[p].pipeline_status = "complete"
                /\ rs[p].is_active
                /\ (rs[p].last_verified_at = NULL \/ rs[p].last_verified_at < t - max_age_days)
                /\ rs[p].cid}
    IN  OrderBy(S, [p \in S |-> rs[p].last_verified_at])

\* The checks in the other order, for contrast with VerifyOne.
VerifyOneClosedLast(D, p, place, t) ==
    LET row == D.restaurants[p]
    IN  IF row.rating = NULL \/ row.rating < MIN_RATING
           \/ row.rating_count = NULL \/ row.rating_count < MIN_REVIEWS
        THEN [outcome |-> "disqualified",
              rs |-> set_pipeline_status_force(D.restaurants, p, "disqualified", t)]
        ELSE IF is_place_closed(place)
        THEN [outcome |-> "closed",
              rs |-> set_pipeline_status_force(D.restaurants, p, "inactive", t)]
        ELSE [outcome |-> "ok", rs |-> [D.restaurants EXCEPT ![p].last_verified_at = t]]

\* pipeline.stage_verify, the body of the try block after save_details: the
\* closed check, the threshold re-check, the refresh of last_verified_at.
VerifyOne(D, p, place, t) ==
    LET row == D.restaurants[p]
    IN  IF is_place_closed(place)
        THEN [outcome |-> "closed",
              rs |-> set_pipeline_status_force(D.restaurants, p, "inactive", t)]
        ELSE IF row.rating = NULL \/ row.rating < MIN_RATING
                \/ row.rating_count = NULL \/ row.rating_count < MIN_REVIEWS
        THEN [outcome |-> "disqualified",
              rs |-> set_pipeline_status_force(D.restaurants, p, "disqualified", t)]
        ELSE [outcome |-> "ok", rs |-> [D.restaurants EXCEPT ![p].last_verified_at = t]]

RECURSIVE VerifyLoop(_, _, _, _, _, _, _)
\* pipeline.stage_verify, the loop over the rows from index i on.
VerifyLoop(D, rows, i, inp, t, rot, log) ==
    IF i > Len(rows) THEN [db |-> D, log |-> log]
    ELSE LET p == rows[i]
             res == FetchPlaceDetails(Always(inp[p].kind), rot)
             place == PlaceResult(inp[p].place)
             log1 == [log EXCEPT !.calls = @ \cup {p}, !.done = @ \cup {p}]
             D1 == [D EXCEPT !.details = save_details(@, p, place)]
             v == VerifyOne(D1, p, place, t)
         IN  IF res.result # "return"
             THEN VerifyLoop(D, rows, i + 1, inp, t, res.rot, [log1 EXCEPT !.failed = @ \cup {p}])
             ELSE VerifyLoop([D1 EXCEPT !.restaurants = v.rs], rows, i + 1, inp, t, res.rot,
                             [log1 EXCEPT !.ok = @ \cup {p}])

\* pipeline.stage_verify(conn, dry_run, max_age_days, limit)
stage_verify(D, dry, limit, inp, t) ==
    LET rows == Limited(fetch_for_verify(D.restaurants, VERIFY_MAX_AGE_DAYS, t), limit)
        log == [NoRun("verify", dry) EXCEPT !.selected = SeqToSet(rows)]
    IN  IF dry THEN [db |-> D, log |-> log]
        ELSE VerifyLoop(D, rows, 1, inp, t, FreshRotator, log)

\* --------------------------------------------------- embed.py: embed stage
\* The view top_restaurants the embedder reads: the restaurants that meet the
\* quality thresholds of config.py.
top_restaurants(rs) == {p \in DOMAIN rs : MeetsThreshold(rs[p])}

\* embed.build_text_content: which text fields of the row are non-empty.  The
\* payloads of this model carry no description, categories or detail tags, so the
\* text comes from the enrichment (must_order is not modelled).
build_text_content(D, p) ==
    IF p \in DOMAIN D.enrichments
    THEN {f \in {"summary_de", "vibe"} :
            (IF f = "vibe" THEN D.enrichments[p].vibe ELSE D.enrichments[p].summary_de)
                \notin {"", "null"}}
    ELSE {}

\* embed.fetch_pending(conn, limit, force=False)
embed_fetch_pending(D, limit) ==
    LET S == top_restaurants(D.restaurants) \ DOMAIN D.embeddings
    IN  Limited(OrderBy(S, RatingKey(D.restaurants, S)), limit)

\* embed.save_embedding: INSERT .. ON CONFLICT DO UPDATE (the open_slots column is left out here; see compute_open_slots).
save_embedding(em, place_id, text) ==
    [p \in DOMAIN em \cup {place_id} |-> IF p = place_id THEN [text_content |-> text] ELSE em[p]]

RECURSIVE SaveEmbeddings(_, _, _)
SaveEmbeddings(D, valid, i) ==
    IF i > Len(valid) THEN D
    ELSE SaveEmbeddings([D EXCEPT !.embeddings =
                            save_embedding(@, valid[i], build_text_content(D, valid[i]))],
                        valid, i + 1)

\* embed.run(limit, dry_run, force=False): one batch (the model holds fewer rows
\* than BATCH_SIZE); `answer` is what embed_content does, "return" or "raise".
embed_run(D, dry, limit, answer) ==
    LET rows == embed_fetch_pending(D, limit)
        sel == SeqToSet(rows)
        validSet == {p \in sel : build_text_content(D, p) # {}}
        valid == SelectSeq(rows, LAMBDA p : p \in validSet)
        log == [NoRun("embed", dry) EXCEPT !.selected = sel]
    IN  IF dry THEN [db |-> D, log |-> log]
        ELSE IF valid = <<>> THEN [db |-> D, log |-> [log EXCEPT !.done = sel]]
        ELSE IF answer = "return"
        THEN [db |-> SaveEmbeddings(D, valid, 1),
              log |-> [log EXCEPT !.calls = validSet, !.ok = validSet, !.done = sel]]
        ELSE [db |-> D,
              log |-> [log EXCEPT !.calls = validSet, !.failed = validSet, !.done = sel]]

\* ================================================================ actions
Store ==
    [restaurants |-> restaurants, enrichments |-> enrichments, details |-> details,
     embeddings |-> embeddings, cache |-> cache, pipeline_runs |-> pipeline_runs,
     search_results |-> search_results]

\* The store and the run record after an operation that yields [db, log].
Commit(r) ==
    /\ restaurants' = r.db.restaurants
    /\ enrichments' = r.db.enrichments
    /\ details' = r.db.details
    /\ embeddings' = r.db.embeddings
    /\ cache' = r.db.cache
    /\ pipeline_runs' = r.db.pipeline_runs
    /\ search_results' = r.db.search_results
    /\ run' = Kept(r.log)

\* --limit: absent, 0 or a positive number.
Limits == {NULL, 0, 1}

SearchInputs ==
    {[kind |-> "ok", body |-> b] : b \in Bodies}
    \cup {[kind |-> k, body |-> [p \in places |-> "absent"]] : k \in {"r429", "http5xx"}}

GeminiInputs ==
    {[kind |-> "ok", data |-> d] : d \in GeminiData}
    \cup {[kind |-> k, data |-> [vibe |-> "", summary_de |-> "", scores |-> 0]] :
            k \in {"r429", "http5xx"}}

\* Gemini answers that differ in what stage_completeness looks at: a vibe and a
\* summary_de that are text, empty or null, and one score short of the
\* threshold or just at it.
CompletenessData ==
    {[vibe |-> v, summary_de |-> s, scores |-> n] :
        v \in {"text", "", "null"}, s \in {"text", "", "null"},
        n \in {MIN_SCORES - 1, MIN_SCORES}}

CompletenessInputs ==
    {[kind |-> "ok", data |-> d] : d \in CompletenessData}
    \cup {[kind |-> "http5xx", data |-> [vibe |-> "", summary_de |-> "", scores |-> 0]]}

DetailInputs ==
    {[kind |-> "ok", place |-> k] : k \in DetailKinds}
    \cup {[kind |-> k, place |-> "open"] : k \in {"r429", "http5xx"}}

\* ------------------------------------ frontend/app.py: the recommender
\* Similarities are counted in millionths (MIN_SIMILARITY is 0.50), a cosine in
\* thousandths, rounded down.  A catalogue row holds what api_similar reads of a
\* place: whether the view top_restaurants lists it (top), whether it has a row
\* in gemini_enrichments (enriched), its 11 profile scores (NULL where the
\* column is null), its tags (atmosphere, offerings, crowd and highlights of
\* serpapi_details), raw_data->>'type' ("null" when absent) and price_level as
\* the number of its currency signs (NULL when absent).

\* COALESCE(x, d)
Coalesce(x, d) == IF x = NULL THEN d ELSE x

Abs(x) == IF x < 0 THEN 0 - x ELSE x

\* The sum of products of the 11 COALESCEd score columns.
Dot(a, b) ==
    LET t(i) == Coalesce(a[i], 0) * Coalesce(b[i], 0)
    IN  t(1) + t(2) + t(3) + t(4) + t(5) + t(6) + t(7) + t(8) + t(9) + t(10) + t(11)

RECURSIVE ISqrtIn(_, _, _)
\* The largest c in lo..hi with c * c <= x, by bisection.
ISqrtIn(x, lo, hi) ==
    IF lo >= hi THEN lo
    ELSE LET mid == (lo + hi + 1) \div 2
         IN  IF mid * mid <= x THEN ISqrtIn(x, mid, hi) ELSE ISqrtIn(x, lo, mid - 1)

\* dot / NULLIF(SQRT(..) * SQRT(..), 0) in thousandths: NULL when a vector is zero.
Cosine(a, b) ==
    LET nn == Dot(a, a) * Dot(b, b)
    IN  IF nn = 0 THEN NULL
        ELSE ISqrtIn(((Dot(a, b) * Dot(a, b) * 10000) \div nn) * 100, 0, 1000)

\* The Jaccard term with a weight of 0.15, for contrast with Jaccard.
JaccardWeight15(A, B) ==
    IF A \cup B = {} THEN 0
    ELSE (150000 * Cardinality(A \cap B)) \div Cardinality(A \cup B)

\* COALESCE(CARDINALITY(.. INTERSECT ..)::float / NULLIF(CARDINALITY(.. UNION ..), 0), 0) * 0.25
Jaccard(A, B) ==
    IF A \cup B = {} THEN 0
    ELSE (250000 * Cardinality(A \cap B)) \div Cardinality(A \cup B)

\* CASE WHEN res2.raw_data->>'type' = t.place_type THEN 0.10 ELSE 0 END
TypeBonus(c, t) ==
    IF c.type # "null" /\ t.type # "null" /\ c.type = t.type THEN 100000 ELSE 0

\* CASE WHEN r.price_level = t.price_level THEN 0.05
\*      WHEN ABS(LENGTH(COALESCE(r.price_level, '€')) - LENGTH(COALESCE(..))) = 1 THEN 0.025
\*      ELSE 0 END
PriceBonus(c, t) ==
    IF c.price # NULL /\ t.price # NULL /\ c.price = t.price THEN 50000
    ELSE IF Abs(Coalesce(c.price, 1) - Coalesce(t.price, 1)) = 1 THEN 25000
    ELSE 0

\* The column `similarity` of a candidate row c against the target row t; NULL
\* when the cosine is NULL.
Similarity(c, t) ==
    IF Cosine(c.scores, t.scores) = NULL THEN NULL
    ELSE 600 * Cosine(c.scores, t.scores) + Jaccard(c.tags, t.tags)
            + TypeBonus(c, t) + PriceBonus(c, t)

\* The CTE target: the row of place_id in top_restaurants, if any.
TargetRows(cat, place_id) == {p \in DOMAIN cat : p = place_id /\ cat[p].top}

\* A WHERE clause that keeps the target among the candidates, for contrast with
\* SimilarCandidates.
SimilarCandidatesWithTarget(cat, place_id) ==
    {p \in DOMAIN cat : cat[p].top /\ cat[p].enriched}

\* FROM top_restaurants r JOIN gemini_enrichments e .. WHERE r.place_id != %(place_id)s
SimilarCandidates(cat, place_id) ==
    {p \in DOMAIN cat : cat[p].top /\ cat[p].enriched /\ p # place_id}

\* An ORDER BY that sorts ascending, for contrast with SimilarRows.
SimilarRowsAscending(cat, place_id) ==
    LET T == TargetRows(cat, place_id)
        t == cat[CHOOSE p \in T : TRUE]
        S == {p \in SimilarCandidates(cat, place_id) :
                /\ Similarity(cat[p], t) # NULL
                /\ Similarity(cat[p], t) >= MIN_SIMILARITY}
    IN  IF T = {} THEN <<>>
        ELSE OrderBy(S, [p \in S |-> Similarity(cat[p], t)])

\* The query of api_similar before its LIMIT: the candidates with
\* similarity >= 0.50, ORDER BY similarity DESC.
SimilarRows(cat, place_id) ==
    LET T == TargetRows(cat, place_id)
        t == cat[CHOOSE p \in T : TRUE]
        S == {p \in SimilarCandidates(cat, place_id) :
                /\ Similarity(cat[p], t) # NULL
                /\ Similarity(cat[p], t) >= MIN_SIMILARITY}
    IN  IF T = {} THEN <<>>
        ELSE OrderBy(S, [p \in S |-> 0 - Similarity(cat[p], t)])

\* round(float(similarity), 3), in thousandths
Round3(x) == (x + 500) \div 1000

\* api_similar(place_id) with ?n=n_arg (NULL when the parameter is absent): the
\* JSON list, or an error when the database rejects a negative LIMIT.
api_similar(cat, place_id, n_arg) ==
    LET n == Min(Coalesce(n_arg, DEFAULT_SIMILAR), MAX_SIMILAR)
        rows == SimilarRows(cat, place_id)
        t == cat[CHOOSE p \in TargetRows(cat, place_id) : TRUE]
    IN  IF n < 0 THEN [ok |-> FALSE, results |-> <<>>]
        ELSE [ok |-> TRUE,
              results |-> [i \in 1..Min(n, Len(rows)) |->
                            [place_id |-> rows[i],
                             similarity |-> Round3(Similarity(cat[rows[i]], t))]]]

\* No request yet.
NoResponse ==
    [ok |-> TRUE, place_id |-> 0, n |-> NULL, requests |-> 0, results |-> <<>>]

\* ------------------------------------ embed.py: opening hours to time slots
\* Texts are sequences of characters where the code slices or formats them.  A
\* time range "13:00-15:45" is held as what the code reads of it: the hour and
\* minute of its start and end and the sign between them; the hours of a day
\* are a closed marker or the ranges of a comma-separated list.
Chars(a, b) == <<a, b>>

Montag == <<"M", "o", "n", "t", "a", "g">>
Samstag == <<"S", "a", "m", "s", "t", "a", "g">>
Feiertag == <<"F", "e", "i", "e", "r", "t", "a", "g">>

\* _DAY_MAP.get(day_de, day_de[:2])
DAY_MAP(day_de) ==
    CASE day_de = Montag -> Chars("M", "o")
      [] day_de = <<"D", "i", "e", "n", "s", "t", "a", "g">> -> Chars("D", "i")
      [] day_de = <<"M", "i", "t", "t", "w", "o", "c", "h">> -> Chars("M", "i")
      [] day_de = <<"D", "o", "n", "n", "e", "r", "s", "t", "a", "g">> -> Chars("D", "o")
      [] day_de = <<"F", "r", "e", "i", "t", "a", "g">> -> Chars("F", "r")
      [] day_de = Samstag -> Chars("S", "a")
      [] day_de = <<"S", "o", "n", "n", "t", "a", "g">> -> Chars("S", "o")
      [] OTHER -> SubSeq(day_de, 1, Min(2, Len(day_de)))

\* f"{bh:02d}"
TwoDigits(bh) ==
    LET digit(n) == CASE n = 0 -> "0" [] n = 1 -> "1" [] n = 2 -> "2" [] n = 3 -> "3"
                      [] n = 4 -> "4" [] n = 5 -> "5" [] n = 6 -> "6" [] n = 7 -> "7"
                      [] n = 8 -> "8" [] OTHER -> "9"
    IN  IF bh < 10 THEN <<"0", digit(bh)>> ELSE <<digit(bh \div 10), digit(bh % 10)>>

\* The range handled as a span that may end on the next day, for contrast with
\* parse_time_range.
parse_time_range_wrapping(s) ==
    IF s.sep \notin {"hyphen", "endash", "emdash"} THEN {}
    ELSE LET sh == s.sh
             eh == IF s.em > 0 THEN s.eh + 1 ELSE s.eh
         IN  {h \in {2 * k : k \in 0..11} :
                IF s.eh * 60 + s.em > s.sh * 60 + s.sm THEN h < eh /\ h + 2 > sh
                ELSE h + 2 > sh}

\* embed._parse_time_range: the start hours of the 2-hour blocks it returns.
\* The dashes become hyphens, the text is split at the hyphen, the minutes of
\* the start are not read, an end with minutes counts as the next full hour.
parse_time_range(s) ==
    IF s.sep \notin {"hyphen", "endash", "emdash"} THEN {}
    ELSE LET sh == s.sh
             eh == IF s.em > 0 THEN s.eh + 1 ELSE s.eh
         IN  {h \in {2 * k : k \in 0..11} : h < eh /\ h + 2 > sh}

\* embed.compute_open_slots: the set it sorts into a list.
compute_open_slots(opening_hours) ==
    IF opening_hours.isnull \/ DOMAIN opening_hours.days = {} THEN {}
    ELSE UNION {
            LET hours_str == opening_hours.days[day_de]
                day == DAY_MAP(day_de)
            IN  IF hours_str.text \in {"null", "", "Geschlossen", "closed"} THEN {}
                ELSE UNION {{day \o TwoDigits(bh) : bh \in parse_time_range(hours_str.ranges[i])} :
                            i \in 1..Len(hours_str.ranges)}
            : day_de \in DOMAIN opening_hours.days}

\* The opening hours the model hands to compute_open_slots.
Ranges ==
    [sh : {9, 13, 18, 22}, sm : {0, 30}, sep : {"hyphen", "endash"},
     eh : {1, 2, 15, 23}, em : {0, 45}]

Lunch == [sh |-> 12, sm |-> 0, sep |-> "endash", eh |-> 15, em |-> 0]

HoursTexts ==
    {[text |-> t, ranges |-> <<>>] : t \in {"null", "", "Geschlossen", "closed"}}
    \cup {[text |-> "ranges", ranges |-> <<r>>] : r \in Ranges}
    \cup {[text |-> "ranges", ranges |-> <<Lunch, r>>] : r \in {x \in Ranges : x.sh = 18 /\ x.sm = 0}}

OpeningHours ==
    {[isnull |-> TRUE, days |-> <<>>], [isnull |-> FALSE, days |-> <<>>]}
    \cup {[isnull |-> FALSE, days |-> [d \in {day_de} |-> h]] :
            day_de \in {Montag, Samstag, Feiertag}, h \in HoursTexts}
    \cup {[isnull |-> FALSE,
           days |-> [d \in {Montag, Samstag} |->
                        IF d = Montag THEN [text |-> "Geschlossen", ranges |-> <<>>] ELSE h]] :
            h \in {x \in HoursTexts : x.text = "ranges" /\ Len(x.ranges) = 1
                                       /\ x.ranges[1].sm = 0 /\ x.ranges[1].sep = "hyphen"}}

NoSlots == [called |-> FALSE, opening_hours |-> [isnull |-> TRUE, days |-> <<>>], out |-> {}]

EmptyTable == [p \in {} |-> 0]

\* Everything the model holds, over an empty database and the catalogue cat.
InitWorld(ps, qs, cat, sl) ==
    /\ catalog = cat
    /\ slots = sl
    /\ similar = NoResponse
    /\ urgency = NoListing
    /\ workers = [w \in 1..NumWorkers |-> NoWorker]
    /\ invocation = [n |-> 0, stages |-> <<>>, pc |-> 0, trace |-> <<>>, rejected |-> FALSE,
                     aborted |-> FALSE, full |-> TRUE, fetched |-> [p \in ps |-> 0]]
    /\ places = ps
    /\ queries = qs
    /\ rotator = KeyRotatorInit(NumKeys).rot
    /\ rotLog = [op |-> "init", ret |-> TRUE, calls |-> 0, exhausted |-> FALSE,
                 seen |-> {0}, given |-> NumKeys, error |-> ""]
    /\ call = NoCall
    /\ restaurants = EmptyTable
    /\ enrichments = EmptyTable
    /\ details = EmptyTable
    /\ embeddings = EmptyTable
    /\ cache = EmptyTable
    /\ pipeline_runs = EmptyTable
    /\ search_results = {}
    /\ now = 0
    /\ ticks = 0
    /\ run = [stage |-> "init", dry_run |-> FALSE, calls |-> {}, ok |-> {}, failed |-> {},
              skipped |-> {}, aborted |-> FALSE, arg |-> "", limit |-> NULL, again |-> {}]

\* The same with no call of compute_open_slots so far.
InitAll(ps, qs, cat) == InitWorld(ps, qs, cat, NoSlots)

InitWith(ps, qs) == InitAll(ps, qs, EmptyTable)

\* The pipeline over an empty database.
Init == InitWith(1..PipePlaces, 1..PipeQueries)

\* Time passes: a day, or more than the verification TTL.
Tick ==
    /\ ticks < MaxTicks
    /\ \E d \in {1, VERIFY_MAX_AGE_DAYS + 1} : now' = now + d
    /\ ticks' = ticks + 1
    /\ run' = Kept(NoRun("tick", FALSE))
    /\ UNCHANGED <<storeVars, rotVars, worldVars>>

\* python pipeline.py --stages search [--dry-run] [--force-search]
StageSearch ==
    \E dry \in BOOLEAN, force \in BOOLEAN :
        LET pr == init_pipeline_runs(pipeline_runs)
            combos == IF force THEN queries ELSE SeqToSet(get_due_pipeline_runs(pr, now))
            asked == IF dry THEN {} ELSE {q \in combos : force \/ ~CachedData(cache, q)}
        IN  \E inp \in [asked -> SearchInputs] :
                /\ Commit(stage_search(Store, dry, force, inp, now))
                /\ UNCHANGED <<now, ticks, rotVars, worldVars>>

\* python pipeline.py --stages qualify [--dry-run]
StageQualify ==
    \E dry \in BOOLEAN :
        /\ Commit(stage_qualify(Store, dry, now))
        /\ UNCHANGED <<now, ticks, rotVars, worldVars>>

\* python pipeline.py --stages enrich [--dry-run] [--limit n] --daily-limit DailyLimit
StageEnrich ==
    \E dry \in BOOLEAN, limit \in Limits :
        LET asked == IF dry THEN {} ELSE SeqToSet(StageEnrichRows(Store, limit, DailyLimit, now))
        IN  \E inp \in [asked -> GeminiInputs] :
                /\ Commit(stage_enrich(Store, dry, limit, DailyLimit, inp, now))
                /\ UNCHANGED <<now, ticks, rotVars, worldVars>>

\* python pipeline.py --stages completeness [--dry-run]
StageCompleteness ==
    \E dry \in BOOLEAN :
        /\ Commit(stage_completeness(Store, dry, now))
        /\ UNCHANGED <<now, ticks, rotVars, worldVars>>

\* python pipeline.py --stages details [--dry-run] [--limit n]
StageDetails ==
    \E dry \in BOOLEAN, limit \in Limits :
        LET asked == IF dry THEN {} ELSE SeqToSet(detail_fetch_pending(Store, limit))
        IN  \E inp \in [asked -> DetailInputs] :
                /\ Commit(stage_details(Store, dry, limit, inp, now))
                /\ UNCHANGED <<now, ticks, rotVars, worldVars>>

\* python pipeline.py --stages verify [--dry-run] [--limit n]
StageVerify ==
    \E dry \in BOOLEAN, limit \in Limits :
        LET asked == IF dry THEN {}
                     ELSE SeqToSet(Limited(fetch_for_verify(restaurants, VERIFY_MAX_AGE_DAYS, now),
                                           limit))
        IN  \E inp \in [asked -> DetailInputs] :
                /\ Commit(stage_verify(Store, dry, limit, inp, now))
                /\ UNCHANGED <<now, ticks, rotVars, worldVars>>

\* python embed.py [--dry-run] [--limit n]
StageEmbed ==
    \E dry \in BOOLEAN, limit \in Limits, answer \in {"return", "raise"} :
        /\ Commit(embed_run(Store, dry, limit, answer))
        /\ UNCHANGED <<now, ticks, rotVars, worldVars>>

Next ==
    \/ Tick
    \/ StageSearch
    \/ StageQualify
    \/ StageEnrich
    \/ StageCompleteness
    \/ StageDetails
    \/ StageVerify
    \/ StageEmbed

Spec == Init /\ [][Next]_vars

\* ------------------------------------------------ the search stage alone
InitSearch == InitWith(1..NumPlaces, 1..NumQueries)

NextSearch == Tick \/ StageSearch

SpecSearch == InitSearch /\ [][NextSearch]_vars

\* ----------------------------------------------- search, enrich and time
InitQuota == InitWith(1..QuotaPlaces, 1..PipeQueries)

NextQuota == Tick \/ StageSearch \/ StageEnrich

SpecQuota == InitQuota /\ [][NextQuota]_vars

\* --------------------------------- enrichment answers of every completeness
\* python pipeline.py --stages enrich [--dry-run] [--limit n], with Gemini
\* answering anything from CompletenessInputs
StageEnrichAny ==
    \E dry \in BOOLEAN, limit \in Limits :
        LET asked == IF dry THEN {} ELSE SeqToSet(StageEnrichRows(Store, limit, DailyLimit, now))
        IN  \E inp \in [asked -> CompletenessInputs] :
                /\ Commit(stage_enrich(Store, dry, limit, DailyLimit, inp, now))
                /\ UNCHANGED <<now, ticks, rotVars, worldVars>>

InitComplete == InitWith(1..PipePlaces, 1..PipeQueries)

NextComplete ==
    StageSearch \/ StageQualify \/ StageEnrichAny \/ StageCompleteness \/ StageVerify

SpecComplete == InitComplete /\ [][NextComplete]_vars

\* ----------------------------------------------- the status helpers alone
\* upsert_restaurant(conn, place) for a place the provider lists
HelperUpsert ==
    \E p \in places, q \in Qualities :
        /\ restaurants' = upsert_restaurant(restaurants, PlaceObject(p, q))
        /\ run' = Kept([NoRun("upsert", FALSE) EXCEPT !.calls = {p}])
        /\ UNCHANGED <<enrichments, details, embeddings, cache, pipeline_runs, search_results,
                       now, ticks, rotVars, worldVars>>

\* set_pipeline_status(conn, place_id, status)
HelperAdvance ==
    \E p \in places, s \in Statuses :
        /\ restaurants' = set_pipeline_status(restaurants, p, s, now)
        /\ run' = Kept([NoRun("advance", FALSE) EXCEPT !.calls = {p}, !.arg = s])
        /\ UNCHANGED <<enrichments, details, embeddings, cache, pipeline_runs, search_results,
                       now, ticks, rotVars, worldVars>>

\* set_pipeline_status_force(conn, place_id, status)
HelperForce ==
    \E p \in places, s \in Statuses :
        /\ restaurants' = set_pipeline_status_force(restaurants, p, s, now)
        /\ run' = Kept([NoRun("force", FALSE) EXCEPT !.calls = {p}, !.arg = s])
        /\ UNCHANGED <<enrichments, details, embeddings, cache, pipeline_runs, search_results,
                       now, ticks, rotVars, worldVars>>

InitStatus == InitWith(1..PipePlaces, {})

NextStatus == Tick \/ HelperUpsert \/ HelperAdvance \/ HelperForce

SpecStatus == InitStatus /\ [][NextStatus]_vars

\* ------------------------------------------------- the key rotator alone
\* What a construction leaves: a new rotator and a fresh log, or the exception
\* and the rotator there was.  `given` is the number of credentials handed to
\* the construction, `seen` the key indexes that have been active since the
\* construction or the last reset().
Constructed(c, op, given) ==
    /\ rotator' = IF c.ok THEN c.rot ELSE rotator
    /\ rotLog' = IF c.ok
                 THEN [op |-> op, ret |-> TRUE, calls |-> 0, exhausted |-> FALSE,
                       seen |-> {Current(c.rot)}, given |-> given, error |-> ""]
                 ELSE [rotLog EXCEPT !.op = op, !.ret = FALSE, !.given = given,
                                     !.error = c.error]
    /\ call' = IF c.ok THEN NoCall ELSE call

\* KeyRotator(keys) with n keys; n = 0 raises and leaves no new rotator.
RotConstruct ==
    \E n \in 0..MaxKeys :
        /\ Constructed(KeyRotatorInit(n), "init", n)
        /\ UNCHANGED <<storeVars, now, ticks, run, worldVars>>

\* KeyRotator.from_env(plural_var, singular_var) over the environments with up
\* to MaxEnvEntries comma-separated entries.
RotFromEnv ==
    \E len \in 0..MaxEnvEntries, singular \in EnvEntries \cup {"no_var"} :
        \E plural \in [1..len -> EnvEntries] :
            /\ Constructed(FromEnv(plural, singular), "from_env", EnvKeys(plural, singular))
            /\ UNCHANGED <<storeVars, now, ticks, run, worldVars>>

\* rotator.rotate(); `calls` counts the rotate() calls since the cycle began.
RotRotate ==
    /\ rotLog.calls < MaxRotations
    /\ LET x == Rotate(rotator)
       IN  /\ rotator' = x.rot
           /\ rotLog' = [rotLog EXCEPT !.op = "rotate", !.ret = x.ret, !.calls = @ + 1,
                                       !.exhausted = @ \/ ~x.ret,
                                       !.seen = @ \cup {Current(x.rot)}]
    /\ UNCHANGED <<call, storeVars, now, ticks, run, worldVars>>

\* rotator.reset()
RotReset ==
    /\ rotator' = Reset(rotator)
    /\ rotLog' = [rotLog EXCEPT !.op = "reset", !.ret = TRUE, !.calls = 0,
                                !.seen = {Current(rotator)}]
    /\ call' = [call EXCEPT !.limited = {}, !.spent = {}]
    /\ UNCHANGED <<storeVars, now, ticks, run, worldVars>>

NextRot == RotConstruct \/ RotFromEnv \/ RotRotate \/ RotReset

SpecRot == InitWith({}, {}) /\ [][NextRot]_vars

\* ------------------------------------- the provider calls and their rotator
\* What the providers answer to one attempt.
SerperAnswers == {"ok", "r429", "credit400", "http5xx"}

SerpApiAnswers == {"ok", "r429", "http5xx"}

\* A provider call on the module-level rotator of its process: the rotator it
\* leaves, and the record of the call.  limited0 and spent0 are the keys that
\* had answered 429, or 400 for lack of credits, since the last reset() when the
\* call began; limited and spent are those keys when it ended.
ProviderCall(fn, res) ==
    /\ call.seq < MaxCalls
    /\ rotator' = res.rot
    /\ call' = [fn |-> fn, n |-> rotator.n, seq |-> call.seq + 1, result |-> res.result,
                trace |-> res.trace,
                limited0 |-> call.limited, spent0 |-> call.spent,
                limited |-> AnsweredSinceReset(res.trace, "r429", call.limited),
                spent |-> AnsweredSinceReset(res.trace, "credit400", call.spent)]
    /\ rotLog' = [rotLog EXCEPT
                    !.op = fn, !.ret = (res.result = "return"),
                    !.calls = res.rot.exhausted_count,
                    !.exhausted = @ \/ \E i \in DOMAIN res.trace :
                                            res.trace[i].did = "sleep30",
                    !.seen = (IF LastReset(res.trace) = 0 THEN @ ELSE {})
                             \cup {res.trace[i].next_key :
                                     i \in {j \in DOMAIN res.trace : j >= LastReset(res.trace)}}]

\* search_maps(query, location), the provider answering its attempts in any way
CallSearchMaps ==
    \E resps \in [1..SERPER_RETRIES -> SerperAnswers] :
        /\ ProviderCall("search_maps", SearchMaps(resps, rotator))
        /\ UNCHANGED <<storeVars, now, ticks, run, worldVars>>

\* fetch_place_details(data_cid), the provider answering its attempts in any way
CallFetchPlaceDetails ==
    \E resps \in [1..SERPAPI_RETRIES -> SerpApiAnswers] :
        /\ ProviderCall("fetch_place_details", FetchPlaceDetails(resps, rotator))
        /\ UNCHANGED <<storeVars, now, ticks, run, worldVars>>

NextCalls == RotFromEnv \/ CallSearchMaps \/ CallFetchPlaceDetails

SpecCalls == InitWith({}, {}) /\ [][NextCalls]_vars

\* --------------------------------------------------- the recommender alone
\* Profile score vectors: two close ones, one nearly orthogonal to them, and
\* one whose columns are all null.
VT == <<8, 2, 2, 2, 2, 2, 2, 2, 2, 2, 2>>
VC == <<7, 3, 2, 2, 2, 2, 2, 2, 2, 2, 2>>
VO == <<0, 0, 0, 0, 0, 0, 0, 0, 0, 0, 9>>
VZ == [i \in 1..11 |-> NULL]

\* Tag sets: TagsT and TagsC share 3 of their 5 tags.
TagsT == {1, 2, 3, 4}
TagsC == {1, 2, 3, 5}

\* A place the view top_restaurants does not list.
RowAbsent ==
    [top |-> FALSE, enriched |-> FALSE, scores |-> VZ, tags |-> {}, type |-> "null",
     price |-> NULL]

\* The rows of a place the view lists: without enrichment row, or with one.
CatalogRows ==
    {RowAbsent}
    \cup {[top |-> TRUE, enriched |-> FALSE, scores |-> VZ, tags |-> TagsT, type |-> y,
           price |-> c] : y \in {"Restaurant", "null"}, c \in {NULL, 1, 2, 3}}
    \cup {[top |-> TRUE, enriched |-> TRUE, scores |-> v, tags |-> TagsT, type |-> y,
           price |-> c] :
            v \in {VT, VC, VO, VZ}, y \in {"Restaurant", "null"}, c \in {NULL, 1, 2, 3}}

\* Rows that differ in what ranks them.
RankRows ==
    {[top |-> TRUE, enriched |-> TRUE, scores |-> v, tags |-> g, type |-> "Restaurant",
      price |-> 1] : v \in {VT, VC, VO}, g \in {TagsT, TagsC, {}}}

\* The catalogues: every pair of rows, every ranking of RankPlaces rows, and
\* a catalogue with more similar places than MAX_SIMILAR.
Catalogs ==
    [1..PairPlaces -> CatalogRows]
    \cup [1..RankPlaces -> RankRows]
    \cup {[p \in 1..LargePlaces |->
            [top |-> TRUE, enriched |-> TRUE, scores |-> IF p % 2 = 0 THEN VT ELSE VC,
             tags |-> IF p % 3 = 0 THEN TagsT ELSE TagsC, type |-> "Restaurant",
             price |-> 1 + (p % 3)]]}

\* The values of ?n=: absent (NULL), negative, 0, 1, and more than MAX_SIMILAR.
SimilarArgs == {NULL, 0 - 2, 0, 1, MAX_SIMILAR + 5}

\* GET /api/similar/<place_id>?n=<n> for a place of the catalogue or an unknown one
ApiSimilar ==
    /\ similar.requests < MaxRequests
    /\ \E place_id \in DOMAIN catalog \cup {0}, n \in SimilarArgs :
        LET answer == api_similar(catalog, place_id, n)
        IN  similar' = [ok |-> answer.ok, place_id |-> place_id, n |-> n,
                         requests |-> similar.requests + 1, results |-> answer.results]
    /\ UNCHANGED <<places, queries, slots, catalog, urgency, workers, invocation, rotVars,
                   storeVars, now, ticks, run>>

InitSimilar == \E cat \in Catalogs : InitAll({}, {}, cat)

NextSimilar == ApiSimilar

SpecSimilar == InitSimilar /\ [][NextSimilar]_vars

\* --------------------------------------- the search queries and their listing
\* db.init_pipeline_runs(conn, SEARCH_TERMS, LOCATIONS)
RunsSeed ==
    /\ pipeline_runs' = init_pipeline_runs(pipeline_runs)
    /\ UNCHANGED <<restaurants, enrichments, details, embeddings, cache, search_results,
                   now, ticks, run, rotVars, worldVars>>

\* db.mark_pipeline_run(conn, query, location, result_count) after a search
RunsMark ==
    /\ \E q \in queries :
        pipeline_runs' = mark_pipeline_run(pipeline_runs, q, 0, "ok", now)
    /\ UNCHANGED <<restaurants, enrichments, details, embeddings, cache, search_results,
                   now, ticks, run, rotVars, worldVars>>

\* Two months pass, or five.
RunsTick ==
    /\ ticks < MaxRunTicks
    /\ \E d \in {TWO_MONTHS, FIVE_MONTHS} : now' = now + d
    /\ ticks' = ticks + 1
    /\ UNCHANGED <<storeVars, run, rotVars, worldVars>>

\* db.get_pipeline_runs(conn), next to db.get_due_pipeline_runs(conn) at the same time
RunsList ==
    /\ urgency' = [at |-> now, rows |-> get_pipeline_runs(pipeline_runs, now),
                   due |-> SeqToSet(get_due_pipeline_runs(pipeline_runs, now))]
    /\ UNCHANGED <<places, queries, slots, catalog, similar, workers, invocation, storeVars, now,
                   ticks, run, rotVars>>

NextRuns == RunsSeed \/ RunsMark \/ RunsTick \/ RunsList

SpecRuns == InitWith({}, 1..RunQueries) /\ [][NextRuns]_vars

\* ------------------------------------------------- concurrent enrich runs
\* python pipeline.py --stages search [--force-search], by either invocation: the
\* provider lists any of the places, each at the threshold or above it.
InvSearch ==
    \E force \in BOOLEAN :
        LET pr == init_pipeline_runs(pipeline_runs)
            combos == IF force THEN queries ELSE SeqToSet(get_due_pipeline_runs(pr, now))
            asked == {q \in combos : force \/ ~CachedData(cache, q)}
        IN  \E inp \in [asked -> {[kind |-> "ok", body |-> b] :
                                    b \in [places -> {"absent", "good", "best"}]}] :
                /\ Commit(stage_search(Store, FALSE, force, inp, now))
                /\ UNCHANGED <<now, ticks, rotVars, worldVars>>

\* pipeline.stage_enrich and enrich.run up to the loop: count_today_enrichments,
\* the two limit computations and fetch_pending, with no --limit.
EnrichCheck(w) ==
    /\ workers[w].pc = "idle"
    /\ LET rows == StageEnrichRows(Store, NULL, WorkerCap, now)
       IN  workers' = [workers EXCEPT ![w] =
                          [pc |-> IF rows = <<>> THEN "done" ELSE "call", rows |-> rows,
                           i |-> 1, ok |-> {}]]
    /\ UNCHANGED <<storeVars, now, ticks, run, rotVars, places, queries, slots, catalog, similar,
                   urgency, invocation>>

\* The loop of enrich.run at row i, when the row is done with: on to the next row.
NextRow(wk) ==
    [wk EXCEPT !.pc = IF wk.i >= Len(wk.rows) THEN "done" ELSE "call", !.i = wk.i + 1]

\* enrich.run, loop body: call_gemini, then save_enrichment with its commit; a
\* failed call is logged and the loop goes on.
EnrichSave(w) ==
    /\ workers[w].pc = "call"
    /\ \E inp \in GeminiInputs :
        LET p == workers[w].rows[workers[w].i]
        IN  IF CallGemini(Always(inp.kind)).result = "return"
            THEN /\ enrichments' = save_enrichment(enrichments, p, inp.data, now)
                 /\ workers' = [workers EXCEPT ![w].pc = "saved"]
            ELSE /\ enrichments' = enrichments
                 /\ workers' = [workers EXCEPT ![w] = NextRow(@)]
    /\ UNCHANGED <<restaurants, details, embeddings, cache, pipeline_runs, search_results,
                   now, ticks, run, rotVars, places, queries, slots, catalog, similar, urgency,
                   invocation>>

\* enrich.run, loop body: set_pipeline_status(conn, place_id, "enriched") with its
\* commit, then stats["ok"] += 1.
EnrichAdvance(w) ==
    /\ workers[w].pc = "saved"
    /\ LET p == workers[w].rows[workers[w].i]
       IN  /\ restaurants' = set_pipeline_status(restaurants, p, "enriched", now)
           /\ workers' = [workers EXCEPT ![w] = NextRow([@ EXCEPT !.ok = @ \cup {p}])]
    /\ UNCHANGED <<enrichments, details, embeddings, cache, pipeline_runs, search_results,
                   now, ticks, run, rotVars, places, queries, slots, catalog, similar, urgency,
                   invocation>>

\* The process is interrupted inside the loop (KeyboardInterrupt and SystemExit
\* are no Exception, so the except clause does not catch them).
EnrichInterrupt(w) ==
    /\ workers[w].pc \in {"call", "saved"}
    /\ workers' = [workers EXCEPT ![w].pc = "interrupted"]
    /\ UNCHANGED <<storeVars, now, ticks, run, rotVars, places, queries, slots, catalog, similar,
                   urgency, invocation>>

NextWorkers ==
    \/ InvSearch
    \/ \E w \in 1..NumWorkers : EnrichCheck(w)
    \/ \E w \in 1..NumWorkers : EnrichSave(w)
    \/ \E w \in 1..NumWorkers : EnrichAdvance(w)
    \/ \E w \in 1..NumWorkers : EnrichInterrupt(w)

SpecWorkers == InitWith(1..WorkerPlaces, 1..PipeQueries) /\ [][NextWorkers]_vars

\* ------------------------------------------------- pipeline.py: main
\* ALL_STAGES, the stage names --stages may list.
ALL_STAGES == <<"search", "qualify", "enrich", "completeness", "details", "verify">>

\* The stages in the order in which they are listed to --stages, for contrast
\* with StageAt: as if main looped over the list "details,search".
StageAtAsListed(k) ==
    CASE k = 1 -> "details" [] k = 2 -> "search" [] k = 3 -> "qualify"
      [] k = 4 -> "enrich" [] k = 5 -> "completeness" [] OTHER -> "verify"

\* The chain of `if "<stage>" in stages:` statements of main: the stage the k-th
\* statement asks for.
StageAt(k) ==
    CASE k = 1 -> "search" [] k = 2 -> "qualify" [] k = 3 -> "enrich"
      [] k = 4 -> "completeness" [] k = 5 -> "details" [] OTHER -> "verify"

\* What a stage called by main may do to the store, over everything the
\* providers may answer; no --dry-run, --force-search or --limit.
StageResults(s) ==
    CASE s = "search" ->
            LET pr == init_pipeline_runs(pipeline_runs)
                asked == {q \in SeqToSet(get_due_pipeline_runs(pr, now)) :
                            ~CachedData(cache, q)}
            IN  {stage_search(Store, FALSE, FALSE, inp, now) : inp \in [asked -> SearchInputs]}
      [] s = "qualify" -> {stage_qualify(Store, FALSE, now)}
      [] s = "enrich" ->
            LET asked == SeqToSet(StageEnrichRows(Store, NULL, DailyLimit, now))
            IN  {stage_enrich(Store, FALSE, NULL, DailyLimit, inp, now) :
                    inp \in [asked -> GeminiInputs]}
      [] s = "completeness" -> {stage_completeness(Store, FALSE, now)}
      [] s = "details" ->
            LET asked == SeqToSet(detail_fetch_pending(Store, NULL))
            IN  {stage_details(Store, FALSE, NULL, inp, now) : inp \in [asked -> DetailInputs]}
      [] OTHER ->
            LET asked == SeqToSet(fetch_for_verify(restaurants, VERIFY_MAX_AGE_DAYS, now))
            IN  {stage_verify(Store, FALSE, NULL, inp, now) : inp \in [asked -> DetailInputs]}

\* python pipeline.py [--stages a,b,..]: the argument is split, checked against
\* ALL_STAGES and refused by ap.error when a name is unknown.
Main ==
    /\ invocation.pc = 0
    /\ invocation.n < MaxInvocations
    /\ \E stages \in {ALL_STAGES,
                       <<"verify", "details", "completeness", "enrich", "qualify", "search">>,
                       <<"details", "search">>,
                       <<"enrich", "bogus", "search">>,
                       <<"">>} :
        LET invalid == {s \in SeqToSet(stages) : s \notin SeqToSet(ALL_STAGES)}
        IN  invocation' = [invocation EXCEPT
                !.n = @ + 1, !.stages = stages, !.trace = <<>>, !.aborted = FALSE,
                !.rejected = invalid # {},
                !.pc = IF invalid # {} THEN 0 ELSE 1,
                !.full = @ /\ stages = ALL_STAGES]
    /\ UNCHANGED <<storeVars, now, ticks, run, rotVars, places, queries, slots, catalog, similar,
                   urgency, workers>>

\* main, the next `if "<stage>" in stages:` statement: the stage runs when it was
\* asked for; an exception that leaves the stage leaves main.
MainStage ==
    /\ invocation.pc \in 1..Len(ALL_STAGES)
    /\ LET s == StageAt(invocation.pc)
           next == IF invocation.pc = Len(ALL_STAGES) THEN 0 ELSE invocation.pc + 1
       IN  IF s \notin SeqToSet(invocation.stages)
           THEN /\ invocation' = [invocation EXCEPT !.pc = next]
                /\ UNCHANGED <<storeVars, run>>
           ELSE \E r \in StageResults(s) :
                /\ Commit(r)
                /\ invocation' = [invocation EXCEPT
                        !.pc = IF r.log.aborted THEN 0 ELSE next,
                        !.aborted = r.log.aborted,
                        !.trace = Append(@, s),
                        !.fetched = [p \in DOMAIN @ |->
                            IF s \in {"details", "verify"} /\ p \in r.log.ok
                            THEN @[p] + 1 ELSE @[p]]]
    /\ UNCHANGED <<now, ticks, rotVars, places, queries, slots, catalog, similar, urgency, workers>>

\* Time passes between two invocations.
MainTick == invocation.pc = 0 /\ Tick

NextMain == MainTick \/ Main \/ MainStage

SpecMain == Init /\ [][NextMain]_vars

\* ---------------------------------------------- the opening-hour slots alone
\* slots = compute_open_slots(oh), as embed.run calls it for a row
ComputeOpenSlots ==
    /\ ~slots.called
    /\ slots' = [slots EXCEPT !.called = TRUE, !.out = compute_open_slots(slots.opening_hours)]
    /\ UNCHANGED <<storeVars, now, ticks, run, rotVars, places, queries, catalog, similar,
                   urgency, workers, invocation>>

InitSlots ==
    \E oh \in OpeningHours :
        InitWorld({}, {}, EmptyTable, [NoSlots EXCEPT !.opening_hours = oh])

NextSlots == ComputeOpenSlots

SpecSlots == InitSlots /\ [][NextSlots]_vars

\* ------------------------------ scheduled full runs with providers in order
\* A stage in which every provider call returned a complete response: no record
\* and no query of the stage failed.
LiveResults(s) == {r \in StageResults(s) : r.log.failed = {} /\ ~r.log.aborted}

\* python pipeline.py --stages search --force-search, answered in full; it is
\* run at most MaxForced times, between two invocations.
LiveForceSearch ==
    /\ invocation.pc = 0
    /\ invocation.n < MaxForced
    /\ \E inp \in [queries -> {i \in SearchInputs : i.kind = "ok"}] :
            Commit(stage_search(Store, FALSE, TRUE, inp, now))
    /\ invocation' = [invocation EXCEPT !.n = @ + 1]
    /\ UNCHANGED <<now, ticks, rotVars, places, queries, slots, catalog, similar, urgency, workers>>

\* python pipeline.py: the scheduled run of all stages, no flags.
LiveMain ==
    /\ invocation.pc = 0
    /\ invocation' = [invocation EXCEPT !.stages = ALL_STAGES, !.pc = 1]
    /\ UNCHANGED <<storeVars, now, ticks, run, rotVars, places, queries, slots, catalog, similar,
                   urgency, workers>>

\* main, the next stage of the scheduled run.
LiveStage ==
    /\ invocation.pc \in 1..Len(ALL_STAGES)
    /\ \E r \in LiveResults(StageAt(invocation.pc)) : Commit(r)
    /\ invocation' = [invocation EXCEPT
            !.pc = IF invocation.pc = Len(ALL_STAGES) THEN 0 ELSE invocation.pc + 1]
    /\ UNCHANGED <<now, ticks, rotVars, places, queries, slots, catalog, similar, urgency, workers>>

NextLive == MainTick \/ LiveForceSearch \/ LiveMain \/ LiveStage

\* What LiveStage does to the position of main: it moves on to the next stage.
\* LiveStage is enabled wherever this is, because LiveResults is never empty.
LiveAdvance ==
    /\ invocation.pc \in 1..Len(ALL_STAGES)
    /\ invocation' = [invocation EXCEPT
            !.pc = IF invocation.pc = Len(ALL_STAGES) THEN 0 ELSE invocation.pc + 1]

\* The scheduler starts the pipeline again and again, and a started run goes
\* through its stages: main is sequential code and every stage returns.
SpecLive == Init /\ [][NextLive]_vars /\ WF_vars(LiveMain) /\ WF_invocation(LiveAdvance)

\* ================================================================= claims

\* C1: a non-forced status update never lowers the status priority: an advance
\* to a status of lower priority leaves the row as it was, and an advance to a
\* status of the same or a higher priority (re-asserting the same status
\* included) is applied, stamping last_verified_at for complete and inactive.
C1_AdvanceNeverDowngrades ==
    [][run'.stage = "advance" =>
        \A p \in run'.calls \cap DOMAIN restaurants :
            LET old == restaurants[p]
                new == restaurants'[p]
            IN  /\ Priority(new.pipeline_status) >= Priority(old.pipeline_status)
                /\ Priority(run'.arg) < Priority(old.pipeline_status) => new = old
                /\ Priority(run'.arg) >= Priority(old.pipeline_status) =>
                        /\ new.pipeline_status = run'.arg
                        /\ run'.arg \in {"complete", "inactive"} => new.last_verified_at = now]_vars

\* An advance to a lower status was just attempted on a row that stands higher.
C1_Witness ==
    /\ run.stage = "advance"
    /\ \E p \in run.calls \cap DOMAIN restaurants :
            Priority(run.arg) < Priority(restaurants[p].pipeline_status)

\* C2: on no day are more enrichments stored than the daily cap allows.
C2_DailyCap ==
    \A p \in DOMAIN enrichments :
        Cardinality({x \in DOMAIN enrichments : enrichments[x].enriched_at = enrichments[p].enriched_at})
            <= DailyLimit

\* C3: a real run of a stage is never left by an exception, and it runs the loop
\* iteration of every record or query it selected to its end.
C3_FailuresIsolated == ~run.dry_run => (~run.aborted /\ run.skipped = {})

\* C4: a dry run makes no provider call and changes neither restaurants, search
\* result links, cache entries, nor last_run_at / result_count of a search query.
C4_DryRunFrame ==
    [][run'.dry_run =>
        /\ run'.calls = {}
        /\ restaurants' = restaurants
        /\ search_results' = search_results
        /\ cache' = cache
        /\ \A q \in DOMAIN pipeline_runs :
              /\ pipeline_runs'[q].last_run_at = pipeline_runs[q].last_run_at
              /\ pipeline_runs'[q].result_count = pipeline_runs[q].result_count]_vars

\* C5: when the enrich, details or embed stage runs right after a real run of the
\* same stage, it makes no call for a place the first run processed successfully,
\* and leaves that place's stored result and status as the first run left them.
C5_SecondRunIdempotent ==
    [][\A p \in run.ok :
        /\ (run.stage = "enrich" /\ ~run.dry_run /\ run'.stage = "enrich") =>
              /\ p \notin run'.calls
              /\ p \in DOMAIN enrichments' /\ enrichments'[p] = enrichments[p]
              /\ restaurants'[p].pipeline_status = restaurants[p].pipeline_status
        /\ (run.stage = "details" /\ ~run.dry_run /\ run'.stage = "details") =>
              /\ p \notin run'.calls
              /\ p \in DOMAIN details' /\ details'[p] = details[p]
              /\ restaurants'[p].pipeline_status = restaurants[p].pipeline_status
        /\ (run.stage = "embed" /\ ~run.dry_run /\ run'.stage = "embed") =>
              /\ p \notin run'.calls
              /\ p \in DOMAIN embeddings' /\ embeddings'[p] = embeddings[p]
              /\ restaurants'[p].pipeline_status = restaurants[p].pipeline_status]_vars

\* A real enrich run has just followed a real enrich run that enriched a place.
C5_Witness ==
    /\ run.stage = "enrich" /\ ~run.dry_run
    /\ \E p \in run.again : p \in DOMAIN enrichments /\ p \notin run.calls

\* C6: in a fresh cycle of a rotator with K keys, the c-th consecutive rotate()
\* (c <= K) returns true exactly if c < K; the first rotate() after reset() is
\* the first of a fresh cycle.
C6_RotateExhaustsAtK ==
    (rotLog.op = "rotate" /\ rotLog.calls <= rotator.n) =>
        (rotLog.ret <=> rotLog.calls < rotator.n)

\* A rotator that reported exhaustion has been reset and rotates again.
C6_Witness ==
    rotLog.op = "rotate" /\ rotLog.ret /\ rotLog.exhausted /\ rotator.n > 1

\* C7: every status change a stage makes is a transition of the state diagram,
\* or a change to inactive.
C7_OnlyDiagramTransitions ==
    [][\A p \in DOMAIN restaurants :
        LET a == restaurants[p].pipeline_status
            b == restaurants'[p].pipeline_status
            diagram == {<<"new", "disqualified">>, <<"disqualified", "new">>,
                        <<"new", "enriched">>, <<"enriched", "complete">>,
                        <<"complete", "inactive">>, <<"complete", "disqualified">>}
        IN  a # b => (<<a, b>> \in diagram \/ b = "inactive")]_vars

\* C8: the enrich stage calls Gemini only for restaurants whose status is new.
C8_EnrichOnlyNew ==
    [][run'.stage = "enrich" =>
        \A p \in run'.calls : restaurants[p].pipeline_status = "new"]_vars

\* C9: the details stage calls SerpAPI only for complete restaurants without a
\* details row.
C9_DetailsOnlyComplete ==
    [][run'.stage = "details" =>
        \A p \in run'.calls :
            restaurants[p].pipeline_status = "complete" /\ p \notin DOMAIN details]_vars

\* C10: for every record the verify stage processes without error: a closed
\* place becomes inactive; otherwise a place whose rating or rating_count is
\* absent or below the threshold becomes disqualified; otherwise it stays
\* complete and last_verified_at becomes now.
C10_VerifyPrecedence ==
    [][run'.stage = "verify" =>
        \A p \in run'.ok :
            LET old == restaurants[p]
                new == restaurants'[p]
                below == \/ old.rating = NULL \/ old.rating < MIN_RATING
                         \/ old.rating_count = NULL \/ old.rating_count < MIN_REVIEWS
            IN  IF is_place_closed(details'[p]) THEN new.pipeline_status = "inactive"
                ELSE IF below THEN new.pipeline_status = "disqualified"
                ELSE new.pipeline_status = "complete" /\ new.last_verified_at = now]_vars

\* The verify stage has just processed a place that is closed and also below the
\* thresholds.
C10_Witness ==
    /\ run.stage = "verify"
    /\ \E p \in run.ok :
          /\ is_place_closed(details[p])
          /\ ~MeetsThreshold(restaurants[p])
          /\ restaurants[p].pipeline_status = "inactive"

\* C11: the verify stage calls the details provider only for restaurants that,
\* when the run starts, are complete, active and have last_verified_at absent
\* or older than the TTL; a record a verify run found in order is not called
\* for by the verify run that follows it.
C11_VerifyOnlyDue ==
    [][run'.stage = "verify" =>
        /\ \A p \in run'.calls :
              /\ restaurants[p].pipeline_status = "complete"
              /\ restaurants[p].is_active
              /\ \/ restaurants[p].last_verified_at = NULL
                 \/ restaurants[p].last_verified_at < now - VERIFY_MAX_AGE_DAYS
        /\ (run.stage = "verify" /\ ~run.dry_run) =>
              \A p \in run.ok : restaurants[p].pipeline_status = "complete" => p \notin run'.calls]_vars

\* A verify run has just found a record in order and refreshed last_verified_at.
C11_Witness ==
    /\ run.stage = "verify"
    /\ \E p \in run.ok :
          /\ restaurants[p].pipeline_status = "complete"
          /\ restaurants[p].last_verified_at = now
          /\ now > VERIFY_MAX_AGE_DAYS

\* C12: a forced update writes the status it is given, and changes
\* last_verified_at only when that status is complete or inactive.
C12_ForceStampsOnlyTerminal ==
    [][run'.stage = "force" =>
        \A p \in run'.calls \cap DOMAIN restaurants :
            /\ restaurants'[p].pipeline_status = run'.arg
            /\ IF run'.arg \in {"complete", "inactive"}
               THEN restaurants'[p].last_verified_at = now
               ELSE restaurants'[p].last_verified_at = restaurants[p].last_verified_at]_vars

\* C13: a search run without force makes no provider call for a query whose
\* response is already in the cache.
C13_PayOncePerCacheKey ==
    [][(run'.stage = "search" /\ run'.arg # "force") =>
        \A q \in run'.calls : ~(q \in DOMAIN cache /\ ~cache[q].isnull)]_vars

\* A real search run without force has served a due query from the cache.
C13_Witness ==
    /\ run.stage = "search" /\ ~run.dry_run /\ run.arg # "force"
    /\ \E q \in run.ok : q \notin run.calls /\ q \in DOMAIN cache /\ ~cache[q].isnull

\* C14: a real search run that is not left by an exception calls the provider
\* for every query that is due when the run starts.
C14_DueQueriesRefetched ==
    [][(run'.stage = "search" /\ ~run'.dry_run /\ ~run'.aborted) =>
        \A q \in queries :
            (q \notin DOMAIN pipeline_runs \/ pipeline_runs[q].last_run_at = NULL
                \/ pipeline_runs[q].last_run_at < now - SEARCH_TTL_DAYS)
            => q \in run'.calls]_vars

\* C15: after a real search run, every query the provider was asked for has
\* last_run_at = now, and a query whose call failed has result_count 0 and
\* status "error".
C15_ExecutedQueriesMarked ==
    [][(run'.stage = "search" /\ ~run'.dry_run) =>
        \A q \in run'.calls \cup run'.ok \cup run'.failed :
            /\ q \in DOMAIN pipeline_runs'
            /\ pipeline_runs'[q].last_run_at = now
            /\ q \in run'.failed =>
                  pipeline_runs'[q].result_count = 0 /\ pipeline_runs'[q].status = "error"]_vars

\* C16: after a real qualify pass every restaurant in status new meets both
\* thresholds, every restaurant that was disqualified and meets them is new,
\* and restaurants that were enriched, complete or inactive are unchanged.
C16_QualifyPartitions ==
    [][(run'.stage = "qualify" /\ ~run'.dry_run) =>
        \A p \in DOMAIN restaurants :
            LET old == restaurants[p]
                new == restaurants'[p]
                meets == /\ old.rating # NULL /\ old.rating >= MIN_RATING
                         /\ old.rating_count # NULL /\ old.rating_count >= MIN_REVIEWS
            IN  /\ new.pipeline_status = "new" => meets
                /\ (old.pipeline_status = "new" /\ ~meets) => new.pipeline_status = "disqualified"
                /\ (old.pipeline_status = "disqualified" /\ meets) => new.pipeline_status = "new"
                /\ old.pipeline_status \in {"enriched", "complete", "inactive"} => new = old]_vars

\* C17: a real completeness pass advances a restaurant from enriched to complete
\* exactly when its enrichment has a non-empty vibe, a non-empty summary and at
\* least 5 of the 11 profile scores set; every other enriched restaurant stays
\* enriched, and no restaurant in any other status is changed by the pass.
C17_CompletenessPredicate ==
    [][(run'.stage = "completeness" /\ ~run'.dry_run) =>
        \A p \in DOMAIN restaurants :
            LET hasAll == /\ p \in DOMAIN enrichments
                          /\ enrichments[p].vibe = "text"
                          /\ enrichments[p].summary_de = "text"
                          /\ enrichments[p].scores >= 5
            IN  IF restaurants[p].pipeline_status = "enriched"
                THEN restaurants'[p].pipeline_status =
                        (IF hasAll THEN "complete" ELSE "enriched")
                ELSE restaurants'[p] = restaurants[p]]_vars

\* A completeness pass has left enriched a restaurant whose enrichment has vibe
\* and summary but only 4 scores.
C17_Witness ==
    /\ run.stage = "completeness" /\ ~run.dry_run
    /\ \E p \in DOMAIN restaurants \cap DOMAIN enrichments :
        /\ restaurants[p].pipeline_status = "enriched"
        /\ enrichments[p].vibe = "text" /\ enrichments[p].summary_de = "text"
        /\ enrichments[p].scores = 4

\* C18: an enrich run makes at most min(requested limit, quota remaining) Gemini
\* calls, for every requested limit, 0 included (an absent limit bounds the run
\* by the quota remaining alone); when the daily quota is used up the run makes
\* no call and changes nothing in the database.
C18_CallsWithinLimitAndQuota ==
    [][run'.stage = "enrich" =>
        LET remaining == DailyLimit - count_today_enrichments(enrichments, now)
            quota == IF remaining > 0 THEN remaining ELSE 0
            bound == IF run'.limit = NULL THEN quota ELSE Min(run'.limit, quota)
        IN  /\ Cardinality(run'.calls) <= bound
            /\ remaining <= 0 => (run'.calls = {} /\ UNCHANGED storeVars)]_vars

\* C19: rotate() returns true only if the key that is active after the call has
\* not been active since the last reset() (or since construction); when it
\* returns false, current() is what it was before the call.
C19_RotateTrueOnlyForFreshKey ==
    [][rotLog'.op = "rotate" =>
        /\ rotLog'.ret => Current(rotator') \notin rotLog.seen
        /\ ~rotLog'.ret => Current(rotator') = Current(rotator)]_vars

\* A rotator with several keys has been reset, has gone through all its keys
\* and has then answered false.
C19_Witness ==
    /\ rotLog.op = "rotate" /\ ~rotLog.ret /\ rotator.n > 1
    /\ rotLog.calls = rotator.n
    /\ rotLog.seen = 0..(rotator.n - 1) /\ Current(rotator) # 0

\* C20: a construction that is handed no credential, from an empty key list or
\* from an environment that holds none, fails with a configuration error and
\* yields no rotator: the rotator there was stays as it is.
C20_NoKeysNoRotator ==
    [][(rotLog'.op \in {"init", "from_env"} /\ rotLog'.given = 0) =>
        /\ ~rotLog'.ret
        /\ rotLog'.error \in {"ValueError", "EnvironmentError"}
        /\ rotator' = rotator]_vars

\* Loading from an environment whose plural variable holds only blank entries
\* and whose singular variable is unset has failed.
C20_Witness ==
    rotLog.op = "from_env" /\ ~rotLog.ret /\ rotLog.given = 0
        /\ rotLog.error = "EnvironmentError"

C22_SimilarItemsEligible ==
    (similar.requests > 0 /\ similar.ok) =>
        \A i \in DOMAIN similar.results :
            LET r == similar.results[i]
            IN  /\ r.place_id \in DOMAIN catalog
                /\ r.place_id # similar.place_id
                /\ catalog[r.place_id].enriched
                /\ \E k \in 1..11 : catalog[r.place_id].scores[k] # NULL
                /\ r.similarity >= 500 /\ r.similarity <= 1000

\* The endpoint has returned a place and has left out another enriched place of
\* the view.
C22_Witness ==
    /\ similar.requests > 0 /\ similar.ok /\ Len(similar.results) >= 1
    /\ \E p \in DOMAIN catalog \ {similar.place_id} :
        /\ catalog[p].top /\ catalog[p].enriched
        /\ \A i \in DOMAIN similar.results : similar.results[i].place_id # p

\* C23: the similar endpoint returns at most min(n, 20) results (n is 6 when
\* the request names none), in the order of non-increasing similarity, and no
\* candidate with a similarity of at least 0.50 that it leaves out has a
\* similarity above that of a returned one.
C23_SimilarTopN ==
    (similar.requests > 0 /\ similar.ok) =>
        LET res == similar.results
            n == IF similar.n = NULL THEN 6 ELSE similar.n
            T == {p \in DOMAIN catalog : p = similar.place_id /\ catalog[p].top}
            t == catalog[CHOOSE p \in T : TRUE]
            returned == {res[i].place_id : i \in DOMAIN res}
            omitted == {p \in DOMAIN catalog \ (returned \cup {similar.place_id}) :
                            /\ T # {}
                            /\ catalog[p].top /\ catalog[p].enriched
                            /\ Similarity(catalog[p], t) # NULL
                            /\ Similarity(catalog[p], t) >= 500000}
        IN  /\ Len(res) <= (IF n < 20 THEN n ELSE 20)
            /\ \A i, j \in DOMAIN res : i < j => res[i].similarity >= res[j].similarity
            /\ \A p \in omitted : \A i \in DOMAIN res :
                    Round3(Similarity(catalog[p], t)) <= res[i].similarity

\* A request for 25 results over more than 20 similar places was answered with 20,
\* not all of the same similarity.
C23_Witness ==
    /\ similar.requests > 0 /\ similar.ok /\ similar.n = 25
    /\ Len(similar.results) = 20
    /\ similar.results[1].similarity > similar.results[20].similarity

C25_PriceBonusByTierDistance ==
    (similar.requests > 0 /\ similar.ok /\ similar.place_id \in DOMAIN catalog) =>
        \A i \in DOMAIN similar.results :
            LET t == catalog[similar.place_id]
                c == catalog[similar.results[i].place_id]
                rest == 600 * Cosine(c.scores, t.scores) + Jaccard(c.tags, t.tags)
                            + TypeBonus(c, t)
                term(x) == similar.results[i].similarity = Round3(rest + x)
            IN  /\ (c.price # NULL /\ t.price # NULL /\ c.price = t.price) => term(50000)
                /\ (c.price # NULL /\ t.price # NULL /\ Abs(c.price - t.price) = 1)
                        => term(25000)
                /\ (c.price # NULL /\ t.price # NULL /\ Abs(c.price - t.price) > 1)
                        => term(0)
                /\ (c.price = NULL /\ t.price # NULL /\ t.price >= 2) => term(0)
                /\ (t.price = NULL /\ c.price # NULL /\ c.price >= 2) => term(0)


C27_ConcurrentRunsKeepCap ==
    count_today_enrichments(enrichments, now) <= WorkerCap

\* C28: the enrich stage stores a record's enrichment and advances its status
\* as one mutation: no record has an enrichment while its status is still new,
\* also after a run failed or was interrupted.  A run that stands between the
\* two statements for the record is not held against the claim here.
C28_EnrichmentImpliesAdvanced ==
    \A p \in DOMAIN enrichments :
        restaurants[p].pipeline_status = "new" =>
            \E w \in 1..NumWorkers :
                workers[w].pc = "saved" /\ workers[w].rows[workers[w].i] = p

\* C29: within one invocation the selected stages run one after the other in
\* the order search, qualify, enrich, completeness, details, verify, however
\* --stages lists them, and an invocation that names an unknown stage is
\* rejected before any stage runs.
C29_FixedStageOrder ==
    LET order == <<"search", "qualify", "enrich", "completeness", "details", "verify">>
        asked(s) == s \in SeqToSet(invocation.stages)
        selected == SelectSeq(order, asked)
        trace == invocation.trace
    IN  /\ Len(trace) <= Len(selected)
        /\ trace = SubSeq(selected, 1, Len(trace))
        /\ invocation.pc > 0 =>
                trace = SelectSeq(SubSeq(order, 1, invocation.pc - 1), asked)
        /\ (invocation.n > 0 /\ invocation.pc = 0 /\ ~invocation.aborted
                /\ ~invocation.rejected) => trace = selected
        /\ invocation.n > 0 =>
                (invocation.rejected <=> \E s \in SeqToSet(invocation.stages) :
                                            s \notin SeqToSet(order))
        /\ invocation.rejected => (trace = <<>> /\ invocation.pc = 0)

\* An invocation that listed details before search has run search and then
\* details, and the details stage called its provider.
C29_Witness ==
    /\ invocation.stages = <<"details", "search">>
    /\ invocation.trace = <<"search", "details">>
    /\ invocation.pc = 0
    /\ run.stage = "details"
    /\ run.calls # {}

\* C30: over runs of the whole pipeline without force, however many, the
\* details provider returns the details of a restaurant at most once.
C30_DetailsFetchedOnce ==
    invocation.full => \A p \in DOMAIN invocation.fetched : invocation.fetched[p] <= 1

\* C31: every call of search_maps and fetch_place_details ends after at most
\* `retries` requests and either returns a response or raises; it never returns
\* without a result.
C31_CallReturnsOrRaises ==
    call.fn # "none" =>
        /\ Len(call.trace) <=
                (IF call.fn = "search_maps" THEN SERPER_RETRIES ELSE SERPAPI_RETRIES)
        /\ call.result \in {"return", "raise"}

\* C32: search_maps raises for lack of credits only when every key of the pool
\* has answered 400 "not enough credits" since the last reset().
C32_CreditsErrorOnlyWhenAllSpent ==
    call.fn = "search_maps" =>
        \A i \in DOMAIN call.trace :
            LET e == call.trace[i]
                R == {j \in 1..(i - 1) : call.trace[j].did \in {"sleep30", "return"}}
                m == IF R = {} THEN 0 ELSE CHOOSE j \in R : \A k \in R : k <= j
                spent == {call.trace[j].key :
                                j \in {k \in (m + 1)..i : call.trace[k].answer = "credit400"}}
                         \cup (IF m = 0 THEN call.spent0 ELSE {})
            IN  /\ e.answer = "credit400" => e.did \in {"rotate", "raise"}
                /\ (e.answer = "credit400" /\ e.did = "raise") => spent = 0..(call.n - 1)

\* C33: a search run leaves the status and last_verified_at of every restaurant
\* that existed before and was not new as they were, and every restaurant it
\* inserts has status new when the run ends.
C33_SearchKeepsStatus ==
    [][run'.stage = "search" =>
        /\ \A p \in DOMAIN restaurants :
                restaurants[p].pipeline_status # "new" =>
                    /\ restaurants'[p].pipeline_status = restaurants[p].pipeline_status
                    /\ restaurants'[p].last_verified_at = restaurants[p].last_verified_at
        /\ \A p \in DOMAIN restaurants' \ DOMAIN restaurants :
                restaurants'[p].pipeline_status = "new"]_vars

\* A real search run has ingested a response that lists a restaurant whose
\* status is complete or inactive.
C33_Witness ==
    /\ run.stage = "search" /\ ~run.dry_run
    /\ \E q \in run.ok \cap DOMAIN cache, p \in DOMAIN restaurants :
        /\ ~cache[q].isnull
        /\ cache[q].body[p] # "absent"
        /\ restaurants[p].pipeline_status \in {"complete", "inactive"}
        /\ restaurants[p].last_verified_at # NULL

\* C34: the seeding at the start of a search stage only inserts the configured
\* pairs that are missing: it leaves every existing row as it is, the rows it
\* inserts were never run, seeding again changes nothing, and the rows of the
\* queries the stage did not run are after the stage as the seeding left them.
C34_SeedingOnlyInserts ==
    [][run'.stage = "search" =>
        LET seeded == init_pipeline_runs(pipeline_runs)
        IN  /\ DOMAIN seeded = DOMAIN pipeline_runs \cup queries
            /\ \A q \in DOMAIN pipeline_runs : seeded[q] = pipeline_runs[q]
            /\ \A q \in DOMAIN seeded \ DOMAIN pipeline_runs : seeded[q].last_run_at = NULL
            /\ init_pipeline_runs(seeded) = seeded
            /\ DOMAIN pipeline_runs' = DOMAIN seeded
            /\ \A q \in DOMAIN seeded :
                    q \notin run'.calls \cup run'.ok \cup run'.failed =>
                        pipeline_runs'[q] = seeded[q]]_vars

\* A search stage that found nothing due has run over a table in which one
\* query had been run and marked before.
C34_Witness ==
    /\ run.stage = "search"
    /\ run.calls \cup run.ok \cup run.failed = {}
    /\ DOMAIN pipeline_runs = queries
    /\ \E q \in queries : pipeline_runs[q].last_run_at # NULL

\* C35: a record whose enrichment call failed in a real enrich run has no
\* enrichment stored, keeps its restaurant row as it was, is counted once as
\* an error and not as ok, and is selected again by the next fetch_pending.
C35_FailedCallLeavesRecordPending ==
    [][(run'.stage = "enrich" /\ ~run'.dry_run) =>
        \A p \in run'.failed \ run'.ok :
            /\ p \in run'.calls
            /\ p \notin DOMAIN enrichments'
            /\ restaurants'[p] = restaurants[p]
            /\ p \in SeqToSet(enrich_fetch_pending(
                        [restaurants |-> restaurants', enrichments |-> enrichments'],
                        NULL))]_vars

\* A real enrich run in which the call for a record failed.
C35_Witness ==
    /\ run.stage = "enrich" /\ ~run.dry_run
    /\ run.failed \ run.ok # {}
    /\ \E p \in run.failed \ run.ok : restaurants[p].pipeline_status = "new"

\* C36: a restaurant whose status is inactive has status inactive after every
\* run of a pipeline stage that was not started with --force-search.
C36_InactiveAbsorbing ==
    [][(run'.stage \in {"search", "qualify", "enrich", "completeness", "details", "verify"}
            /\ run'.arg # "force") =>
        \A p \in DOMAIN restaurants :
            restaurants[p].pipeline_status = "inactive" =>
                restaurants'[p].pipeline_status = "inactive"]_vars

\* A real enrich run has called Gemini for a restaurant that was inactive, and
\* the restaurant is inactive after it.
C36_Witness ==
    /\ run.stage = "enrich" /\ ~run.dry_run
    /\ \E p \in run.ok : restaurants[p].pipeline_status = "inactive"

\* C37: a restaurant whose status is enriched or complete has an enrichment
\* stored.
C37_EnrichedHasEnrichment ==
    \A p \in DOMAIN restaurants :
        restaurants[p].pipeline_status \in {"enriched", "complete"} =>
            p \in DOMAIN enrichments

\* A completeness run has advanced a restaurant to complete.
C37_Witness ==
    /\ run.stage = "completeness" /\ ~run.dry_run
    /\ \E p \in run.ok :
            /\ restaurants[p].pipeline_status = "complete"
            /\ p \in DOMAIN enrichments

\* C38: a restaurant whose status is complete has a last_verified_at; the step
\* that makes it complete sets it to the time of the step, it does not go back
\* while the restaurant stays complete, and verify asks the provider only about
\* restaurants whose last_verified_at is more than the TTL old.
C38_CompleteIsStamped ==
    [][\A p \in DOMAIN restaurants' :
        LET was == IF p \in DOMAIN restaurants THEN restaurants[p].pipeline_status ELSE "absent"
        IN  /\ restaurants'[p].pipeline_status = "complete" =>
                /\ restaurants'[p].last_verified_at # NULL
                /\ was # "complete" => restaurants'[p].last_verified_at = now'
                /\ was = "complete" =>
                        restaurants'[p].last_verified_at >= restaurants[p].last_verified_at
            /\ (run'.stage = "verify" /\ p \in run'.calls) =>
                /\ was = "complete"
                /\ restaurants[p].last_verified_at # NULL
                /\ now - restaurants[p].last_verified_at > VERIFY_MAX_AGE_DAYS]_vars

\* A verify run has asked the provider about a restaurant, more than the TTL
\* after the restaurant became complete, and found it in order.
C38_Witness ==
    /\ run.stage = "verify" /\ ~run.dry_run
    /\ \E p \in run.ok :
            /\ restaurants[p].pipeline_status = "complete"
            /\ restaurants[p].last_verified_at = now
            /\ now > VERIFY_MAX_AGE_DAYS

\* C39: once the forced searches are over and only scheduled full runs with
\* providers in order follow, a restaurant that is new and meets the thresholds
\* is complete at some later time.
C39_NewReachesComplete ==
    \A p \in 1..PipePlaces :
        (/\ invocation.n = MaxForced
         /\ p \in DOMAIN restaurants
         /\ restaurants[p].pipeline_status = "new"
         /\ MeetsThreshold(restaurants[p]))
        ~> (p \in DOMAIN restaurants /\ restaurants[p].pipeline_status = "complete")

\* C40: the tokens compute_open_slots yields are the day abbreviation and the
\* two-digit start hour of the 2-hour blocks that overlap the open time of a
\* range of a day that is not marked closed.  Of a range that closes after
\* midnight the blocks from its start to midnight are required, and those from
\* midnight to its end are allowed.
C40_SlotsAreOverlappingBlocks ==
    slots.called =>
        LET oh == slots.opening_hours.days
            open == {d \in DOMAIN oh : oh[d].text = "ranges"}
            Overlap(a, b) == {h \in {2 * k : k \in 0..11} : h * 60 < b /\ h * 60 + 120 > a}
            from(r) == r.sh * 60 + r.sm
            to(r) == r.eh * 60 + r.em
            atLeast(r) == IF to(r) > from(r) THEN Overlap(from(r), to(r))
                          ELSE Overlap(from(r), 1440)
            atMost(r) == IF to(r) > from(r) THEN Overlap(from(r), to(r))
                         ELSE Overlap(from(r), 1440) \cup Overlap(0, to(r))
            tokens(d, H) == {DAY_MAP(d) \o TwoDigits(h) : h \in H}
            required == UNION {UNION {tokens(d, atLeast(oh[d].ranges[i])) :
                                        i \in 1..Len(oh[d].ranges)} : d \in open}
            allowed == UNION {UNION {tokens(d, atMost(oh[d].ranges[i])) :
                                        i \in 1..Len(oh[d].ranges)} : d \in open}
        IN  required \subseteq slots.out /\ slots.out \subseteq allowed

====
